---------------------------- MODULE Spec2Model ----------------------------
(***************************************************************************)
(* Travel-planning agent: the durable checkpoint store                     *)
(* (services/db_checkpointer.py, db/models.py), the agent loop             *)
(* (services/ai_service.py) and the request data store.                    *)
(***************************************************************************)
EXTENDS Integers, Sequences, FiniteSets, TLC

VARIABLES
    rows,           \* table "checkpoints", in insertion (primary key) order
    conversations,  \* table "conversations": the thread ids that have a record
    now,            \* the database clock behind server_default=func.now()
    written,        \* history: written[i] is the checkpoint whose put added rows[i]
    ret,            \* what the most recent call of the store or a read route returned
    pc,             \* per chat invocation: idle, START, REASON, TOOLS, END, FAILED, REJECTED
    thread,         \* per invocation: its thread_id
    messages,       \* per invocation: state["messages"] of the graph
    step,           \* per invocation: supersteps (agent or tools node) executed
    error,          \* per invocation: the exception that left chat, or None
    ncalls,         \* per invocation: tool calls issued so far (numbers the call ids)
    results,        \* per invocation: per tool call of the turn, its returned string
    outcome,        \* history: per tool call of the turn, what the provider did
    crd,            \* the module global _current_request_data
    response,       \* per invocation: the dict chat returned, or None
    before,         \* history: rows get could return for the thread when chat began
    own,            \* history: per invocation, the (data_type, key) it deposited
    request,        \* per invocation: the message of the HTTP request, once received
    tx,             \* per caller of put: its database session and what it holds uncommitted
    http            \* per search service: the module global _http_client and the clients made

storeVars == <<rows, conversations, now, written, ret>>
runVars == <<pc, thread, messages, step, error, ncalls, results, outcome, crd,
             response, before, own, request, tx, http>>
vars == <<rows, conversations, now, written, ret, pc, thread, messages, step,
          error, ncalls, results, outcome, crd, response, before, own, request,
          tx, http>>

(***************************************************************************)
(* Bounds of the model.                                                    *)
(***************************************************************************)
MaxRows == 3
MaxClock == 2
MaxMsgs == 2
\* langgraph's recursion_limit; chat passes none, so the library default (25)
\* applies.  The model runs with a small limit.
RecursionLimit == 3
\* clients one search service makes
MaxClients == 2
\* length of a list, tuple or dict held by a channel
MaxItems == 2
\* sizes of the provider answers handed to the parsers
MaxRecords == 2
MaxAmenities == 5
MaxSegments == 3

(***************************************************************************)
(* Values.  Python's None and a missing dict key are the strings below, so *)
(* that every field compares with every other.                             *)
(***************************************************************************)
None == "None"
Absent == "Absent"
EmptyKwargs == "{}"

Range(s) == {s[i] : i \in 1..Len(s)}

(***************************************************************************)
(* Messages.  One record shape for the four langchain message classes: a   *)
(* class without the attribute holds <<>> for tool_calls and Absent for    *)
(* tool_call_id.                                                           *)
(***************************************************************************)
ToolCall(id, name, args) == [id |-> id, name |-> name, args |-> args]

HumanMessage(content) ==
    [type |-> "human", content |-> content, additional_kwargs |-> EmptyKwargs,
     tool_calls |-> <<>>, tool_call_id |-> Absent]

SystemMessage(content) ==
    [type |-> "system", content |-> content, additional_kwargs |-> EmptyKwargs,
     tool_calls |-> <<>>, tool_call_id |-> Absent]

AIMessage(content, kwargs, calls) ==
    [type |-> "ai", content |-> content, additional_kwargs |-> kwargs,
     tool_calls |-> calls, tool_call_id |-> Absent]

ToolMessage(content, call_id) ==
    [type |-> "tool", content |-> content, additional_kwargs |-> EmptyKwargs,
     tool_calls |-> <<>>, tool_call_id |-> call_id]

(***************************************************************************)
(* _serialize_channel_values, the "messages" branch: one dict per message  *)
(* with exactly the four keys the code writes.                             *)
(***************************************************************************)
SerializeMessage(msg) ==
    [type |-> msg.type,
     content |-> msg.content,
     additional_kwargs |-> msg.additional_kwargs,
     tool_calls |-> msg.tool_calls]

SerializeChannelValues(channel_values) ==
    [messages |-> [i \in 1..Len(channel_values.messages) |->
                      SerializeMessage(channel_values.messages[i])]]

(***************************************************************************)
(* _deserialize_channel_values: the message class is chosen by "type";     *)
(* the tool branch reads the key "tool_call_id" of the stored dict with    *)
(* default "".                                                             *)
(***************************************************************************)
StoredToolCallId(msg_data) ==
    IF "tool_call_id" \in DOMAIN msg_data THEN msg_data.tool_call_id ELSE ""

DeserializeMessage(msg_data) ==
    CASE msg_data.type = "human" -> HumanMessage(msg_data.content)
      [] msg_data.type = "ai" ->
            AIMessage(msg_data.content, msg_data.additional_kwargs, msg_data.tool_calls)
      [] msg_data.type = "system" -> SystemMessage(msg_data.content)
      [] msg_data.type = "tool" ->
            ToolMessage(msg_data.content, StoredToolCallId(msg_data))
      [] OTHER -> HumanMessage(msg_data.content)

DeserializeChannelValues(channel_values) ==
    [messages |-> [i \in 1..Len(channel_values.messages) |->
                      DeserializeMessage(channel_values.messages[i])]]

(***************************************************************************)
(* A checkpoint as langgraph hands it to put.  id = Absent is a checkpoint *)
(* dict without the key "id".                                              *)
(***************************************************************************)
Checkpoint(v, ts, id, msgs, versions, seen) ==
    [v |-> v, ts |-> ts, id |-> id,
     channel_values |-> [messages |-> msgs],
     channel_versions |-> versions,
     versions_seen |-> seen]

\* config.get("configurable", {}).get("thread_id", "default")
ThreadId(config) == IF config = Absent THEN "default" ELSE config

\* the JSON document put stores in checkpoint_data
CheckpointData(checkpoint) ==
    [v |-> checkpoint.v,
     ts |-> checkpoint.ts,
     id |-> IF checkpoint.id = Absent THEN None ELSE checkpoint.id,
     channel_values |-> SerializeChannelValues(checkpoint.channel_values),
     channel_versions |-> checkpoint.channel_versions,
     versions_seen |-> checkpoint.versions_seen]

\* the CheckpointModel row put adds; created_at is the server default
CheckpointRecord(thread_id, checkpoint, created_at) ==
    [thread_id |-> thread_id,
     checkpoint_id |-> IF checkpoint.id = Absent THEN "" ELSE checkpoint.id,
     checkpoint_data |-> CheckpointData(checkpoint),
     created_at |-> created_at]

\* _ensure_conversation_exists
EnsureConversationExists(convs, thread_id) == convs \cup {thread_id}

\* a put that overwrites the thread's newest row instead of adding one
PutRowsUpsert(table, config, checkpoint, created_at) ==
    IF \E i \in 1..Len(table) : table[i].thread_id = ThreadId(config)
    THEN LET k == CHOOSE i \in 1..Len(table) :
                    /\ table[i].thread_id = ThreadId(config)
                    /\ \A j \in 1..Len(table) :
                          table[j].thread_id = ThreadId(config) => j <= i
         IN [table EXCEPT ![k] = CheckpointRecord(ThreadId(config), checkpoint, created_at)]
    ELSE Append(table, CheckpointRecord(ThreadId(config), checkpoint, created_at))

\* a put whose rows all carry the same created_at
PutRowsUnstamped(table, config, checkpoint, created_at) ==
    Append(table, CheckpointRecord(ThreadId(config), checkpoint, 0))

\* put: the rows of the table after a put that commits
PutRows(table, config, checkpoint, created_at) ==
    Append(table, CheckpointRecord(ThreadId(config), checkpoint, created_at))

\* the checkpoint dict get and list build from one row
LoadCheckpoint(record) ==
    [v |-> record.checkpoint_data.v,
     ts |-> record.checkpoint_data.ts,
     id |-> record.checkpoint_data.id,
     channel_values |-> DeserializeChannelValues(record.checkpoint_data.channel_values),
     channel_versions |-> record.checkpoint_data.channel_versions,
     versions_seen |-> record.checkpoint_data.versions_seen]

\* a query without the WHERE clause on thread_id
ThreadRowsAll(table, thread_id) == 1..Len(table)

\* WHERE CheckpointModel.thread_id == thread_id
ThreadRows(table, thread_id) ==
    {i \in 1..Len(table) : table[i].thread_id = thread_id}

(***************************************************************************)
(* get: ORDER BY created_at DESC LIMIT 1.  The query names no second sort  *)
(* key, so among rows of equal created_at the database may return any:     *)
(* every such row is a possible answer.                                    *)
(***************************************************************************)
LatestCandidates(table, thread_id) ==
    {i \in ThreadRows(table, thread_id) :
        \A j \in ThreadRows(table, thread_id) :
            table[j].created_at <= table[i].created_at}

\* the row of the thread that was written last (the greatest primary key)
LastWritten(table, thread_id) ==
    CHOOSE i \in ThreadRows(table, thread_id) :
        \A j \in ThreadRows(table, thread_id) : j <= i

\* list: ORDER BY created_at DESC; every order of the thread's rows that is
\* descending in created_at is a possible answer
ListOrders(table, thread_id) ==
    LET ids == ThreadRows(table, thread_id)
        n == Cardinality(ids)
    IN {s \in [1..n -> ids] :
          /\ \A i, j \in 1..n : i # j => s[i] # s[j]
          /\ \A i, j \in 1..n : i < j => table[s[i]].created_at >= table[s[j]].created_at}

(***************************************************************************)
(* The store API called directly.                                          *)
(***************************************************************************)
Configs == {"t1", Absent}

\* the chat invocations of a behaviour
Runs == {"A", "B"}
DataTypes == {"flights", "hotels", "news"}
\* {"flights": {}, "hotels": {}, "news": {}}
EmptyRequestData == [t \in DataTypes |-> [k \in {} |-> None]]
StoreCheckpoints ==
    { Checkpoint(1, "ts", "c1", <<>>, "cv", "vs"),
      Checkpoint(1, "ts", Absent, <<HumanMessage("h")>>, "cv", "vs") }

\* the modules flight_service, hotel_service, news_service, in the order in
\* which shutdown_event closes their clients
Services == <<"flights", "hotels", "news">>
ServiceNames == Range(Services)

\* _http_client = None
NoClient == 0

\* no put has opened a session
NoSession == [pc |-> "idle"]

Init ==
    /\ rows = <<>>
    /\ conversations = {}
    /\ now = 0
    /\ written = <<>>
    /\ ret = [op |-> "none"]
    /\ pc = [r \in Runs |-> "idle"]
    /\ thread = [r \in Runs |-> None]
    /\ messages = [r \in Runs |-> <<>>]
    /\ step = [r \in Runs |-> 0]
    /\ error = [r \in Runs |-> None]
    /\ ncalls = [r \in Runs |-> 0]
    /\ results = [r \in Runs |-> <<>>]
    /\ outcome = [r \in Runs |-> <<>>]
    /\ crd = EmptyRequestData
    /\ response = [r \in Runs |-> [returned |-> FALSE]]
    /\ before = [r \in Runs |-> {}]
    /\ own = [r \in Runs |-> {}]
    /\ request = [r \in Runs |-> None]
    /\ tx = [r \in Runs |-> NoSession]
    /\ http = [client |-> [s \in ServiceNames |-> NoClient],
               made |-> [s \in ServiceNames |-> 0],
               open |-> [s \in ServiceNames |-> {}],
               closing |-> [s \in ServiceNames |-> NoClient],
               shutdown |-> 0]

\* the database clock advances between two statements, or does not
Tick ==
    /\ now < MaxClock
    /\ now' = now + 1
    /\ UNCHANGED <<rows, conversations, written, ret>>
    /\ UNCHANGED runVars

\* put(config, checkpoint, metadata); a fault anywhere inside the session
\* block rolls the transaction back and the exception leaves put
StorePut(config, checkpoint, fault) ==
    /\ Len(rows) < MaxRows
    /\ IF fault
       THEN /\ ret' = [op |-> "put", raised |-> TRUE, config |-> config]
            /\ UNCHANGED <<rows, conversations, now, written>>
       ELSE /\ conversations' = EnsureConversationExists(conversations, ThreadId(config))
            /\ rows' = PutRows(rows, config, checkpoint, now)
            /\ written' = Append(written, checkpoint)
            /\ ret' = [op |-> "put", raised |-> FALSE, config |-> config]
            /\ UNCHANGED now
    /\ UNCHANGED runVars

\* get(config): None for a thread without rows and for any exception
StoreGet(config, fault) ==
    /\ \/ /\ fault \/ ThreadRows(rows, ThreadId(config)) = {}
          /\ ret' = [op |-> "get", config |-> config, row |-> 0, value |-> None]
       \/ /\ ~fault
          /\ \E i \in LatestCandidates(rows, ThreadId(config)) :
                ret' = [op |-> "get", config |-> config, row |-> i,
                        value |-> LoadCheckpoint(rows[i])]
    /\ UNCHANGED <<rows, conversations, now, written>>
    /\ UNCHANGED runVars

\* list(config): [] for any exception
StoreList(config, fault) ==
    /\ \/ /\ fault
          /\ ret' = [op |-> "list", config |-> config, order |-> <<>>, value |-> <<>>]
       \/ /\ ~fault
          /\ \E s \in ListOrders(rows, ThreadId(config)) :
                ret' = [op |-> "list", config |-> config, order |-> s,
                        value |-> [i \in 1..Len(s) |-> LoadCheckpoint(rows[s[i]])]]
    /\ UNCHANGED <<rows, conversations, now, written>>
    /\ UNCHANGED runVars

StoreNext ==
    \/ Tick
    \/ \E config \in Configs, checkpoint \in StoreCheckpoints, fault \in BOOLEAN :
          StorePut(config, checkpoint, fault)
    \/ \E config \in Configs, fault \in BOOLEAN : StoreGet(config, fault)
    \/ \E config \in Configs, fault \in BOOLEAN : StoreList(config, fault)

SpecStore == Init /\ [][StoreNext]_vars

(***************************************************************************)
(* One put of any checkpoint over the four message classes, then get.      *)
(***************************************************************************)
RoundTripCalls ==
    { <<ToolCall("call_1", "search_news", "q")>>,
      <<ToolCall("call_1", "search_flights", "f"), ToolCall("call_2", "get_current_date", "")>> }
RoundTripUniverse ==
    {SystemMessage("s"), HumanMessage("h"), AIMessage("a", EmptyKwargs, <<>>)}
    \cup {AIMessage("", kw, calls) : kw \in {EmptyKwargs, "{refusal}"}, calls \in RoundTripCalls}
    \cup {ToolMessage("r", id) : id \in {"call_1", "call_2"}}
RoundTripMessages ==
    UNION {[1..n -> RoundTripUniverse] : n \in 0..MaxMsgs}
RoundTripCheckpoints ==
    {Checkpoint(1, "ts", "c1", m, "cv", "vs") : m \in RoundTripMessages}

RoundTripPut(config, checkpoint) ==
    /\ rows = <<>>
    /\ StorePut(config, checkpoint, FALSE)

RoundTripNext ==
    \/ \E config \in Configs, checkpoint \in RoundTripCheckpoints :
          RoundTripPut(config, checkpoint)
    \/ \E config \in Configs : StoreGet(config, FALSE)

SpecRoundTrip == Init /\ [][RoundTripNext]_vars

(***************************************************************************)
(* The search tools (ai_service.py) over the three search services.  What  *)
(* the provider does with one request is an input of the model:            *)
(*   ok               a 200 answer the parser can reduce                   *)
(*   malformed        a 200 answer on which the parser raises              *)
(*   network_error    httpx.HTTPError from client.get                      *)
(*   error_status     an answer with an error status                       *)
(*   no_code          get_iata finds no code for a city (flights only)     *)
(***************************************************************************)
ProviderOutcomes == {"ok", "malformed", "network_error", "error_status", "no_code"}
EmptyDict == "{}"

\* get_flight_details: None without codes and on httpx.HTTPError, which
\* raise_for_status raises for an error status
GetFlightDetails(oc) ==
    CASE oc = "no_code" -> None
      [] oc \in {"network_error", "error_status"} -> None
      [] OTHER -> oc

\* get_hotel_details: None for a status other than 200 and on httpx.HTTPError
GetHotelDetails(oc) ==
    CASE oc = "error_status" -> None
      [] oc = "network_error" -> None
      [] OTHER -> IF oc = "no_code" THEN "ok" ELSE oc

\* get_news: {} for a status other than 200 and on httpx.HTTPError
GetNews(oc) ==
    CASE oc = "error_status" -> EmptyDict
      [] oc = "network_error" -> EmptyDict
      [] OTHER -> IF oc = "no_code" THEN "ok" ELSE oc

\* what a tool call gives back: the string for the tool message and the
\* deposits it made into _current_request_data
ToolResult(content, deposits) ==
    [content |-> content, deposits |-> deposits, raised |-> FALSE]
\* an exception that leaves the tool function
ToolRaises == [content |-> "", deposits |-> {}, raised |-> TRUE]
FullData(r, data_type, key) ==
    [data_type |-> data_type, key |-> key, payload |-> [by |-> r, of |-> data_type]]

\* a key without the date
FlightsKeyNoDate(args) == <<args.departure, "_", args.arrival>>
FlightsKey(args) == <<args.departure, "_", args.arrival, "_", args.outbound_date>>
HotelsKey(args) == <<args.location, "_", args.check_in_date, "_", args.check_out_date>>
NewsKey(args) == <<args.query>>

\* search_flights, with a handler that lets the exception leave the tool
SearchFlightsRaising(r, args, oc) ==
    LET flight_data == GetFlightDetails(oc)
    IN IF flight_data = None
       THEN ToolResult("No flights found for the given route and dates.", {})
       ELSE IF flight_data = "malformed"
       THEN ToolRaises
       ELSE ToolResult("flights [n] {idx, price, duration, stops, departure, arrival, airline, flight_num}",
                       {FullData(r, "flights", FlightsKey(args))})

SearchFlights(r, args, oc) ==
    LET flight_data == GetFlightDetails(oc)
    IN IF flight_data = None
       THEN ToolResult("No flights found for the given route and dates.", {})
       ELSE IF flight_data = "malformed"
       THEN ToolResult("Error searching flights: e", {})
       ELSE ToolResult("flights [n] {idx, price, duration, stops, departure, arrival, airline, flight_num}",
                       {FullData(r, "flights", FlightsKey(args))})

SearchHotels(r, args, oc) ==
    LET hotel_data == GetHotelDetails(oc)
    IN IF hotel_data = None
       THEN ToolResult("No hotels found for the given location and dates.", {})
       ELSE IF hotel_data = "malformed"
       THEN ToolResult("Error searching hotels: e", {})
       ELSE ToolResult("properties [n] {idx, name, city, country, price_per_night, total_price, rating, reviews, location_rating, amenities_summary}",
                       {FullData(r, "hotels", HotelsKey(args))})

SearchNews(r, args, oc) ==
    LET news_data == GetNews(oc)
    IN IF news_data = EmptyDict
       THEN ToolResult("No news articles found for the given query.", {})
       ELSE IF news_data = "malformed"
       THEN ToolResult("Error searching news: e", {})
       ELSE ToolResult("news [n] {idx, title, source, date, snippet}",
                       {FullData(r, "news", NewsKey(args))})

GetCurrentDate == ToolResult("Current Date Information: ...", {})

\* ToolNode: the tool is resolved by name
RunTool(r, call, oc) ==
    CASE call.name = "search_flights" -> SearchFlights(r, call.args, oc)
      [] call.name = "search_hotels" -> SearchHotels(r, call.args, oc)
      [] call.name = "search_news" -> SearchNews(r, call.args, oc)
      [] OTHER -> GetCurrentDate

\* a store that keeps the payload a key already has
DepositKeepsFirst(store, deposits) ==
    [t \in DataTypes |->
        LET new == {d \in deposits : d.data_type = t}
        IN [k \in (DOMAIN store[t]) \cup {d.key : d \in new} |->
               IF k \in DOMAIN store[t] THEN store[t][k]
               ELSE (CHOOSE d \in new : d.key = k).payload]]

\* a tool that keeps the full payload to itself
DepositNowhere(store, deposits) == store

\* _current_request_data[data_type][key] = full_data
Deposit(store, deposits) ==
    [t \in DataTypes |->
        LET new == {d \in deposits : d.data_type = t}
        IN [k \in (DOMAIN store[t]) \cup {d.key : d \in new} |->
               IF \E d \in new : d.key = k
               THEN (CHOOSE d \in new : d.key = k).payload
               ELSE store[t][k]]]

(***************************************************************************)
(* The agent graph (create_agent_graph) run by chat through langgraph:     *)
(* START -> agent, agent -> tools | END by should_continue, tools -> agent,*)
(* compiled with the checkpointer, so that the state is put after the      *)
(* input is applied and after every node.                                  *)
(***************************************************************************)
ChatThreads == {"t1", "default"}
UserMessage == [A |-> "question A", B |-> "question B"]
CheckpointIdOf ==
    [A |-> <<"ckpt-A1", "ckpt-A2", "ckpt-A3", "ckpt-A4", "ckpt-A5", "ckpt-A6", "ckpt-A7">>,
     B |-> <<"ckpt-B1", "ckpt-B2", "ckpt-B3", "ckpt-B4", "ckpt-B5", "ckpt-B6", "ckpt-B7">>]
CallIdOf ==
    [A |-> <<"call_A1", "call_A2", "call_A3", "call_A4", "call_A5", "call_A6">>,
     B |-> <<"call_B1", "call_B2", "call_B3", "call_B4", "call_B5", "call_B6">>]

FlightArgs == [departure |-> "Mumbai", arrival |-> "Delhi", outbound_date |-> "2025-12-15"]
HotelArgs == [check_in_date |-> "2025-12-20", check_out_date |-> "2025-12-25", location |-> "Bali"]
NewsArgs == [query |-> "travel Japan"]
NoArgs == [none |-> None]
Request(name, args) == [name |-> name, args |-> args]

\* what the reasoning provider may answer: an exception, a terminal message,
\* or a message with tool calls
ToolRequests ==
    { <<Request("search_flights", FlightArgs), Request("get_current_date", NoArgs)>>,
      <<Request("search_hotels", HotelArgs)>> }
LLMResponses ==
    {[kind |-> "fail"], [kind |-> "final"]}
    \cup {[kind |-> "tools", requests |-> q] : q \in ToolRequests}

SYSTEM_PROMPT == "You are a helpful travel planning assistant. ..."

\* agent_node: the list handed to the model
AgentInput(msgs) ==
    IF Len(msgs) = 1 THEN <<SystemMessage(SYSTEM_PROMPT)>> \o msgs ELSE msgs

\* the AIMessage the provider's answer becomes; the provider numbers its calls
ResponseMessage(r, resp, n) ==
    IF resp.kind = "final"
    THEN AIMessage("answer", EmptyKwargs, <<>>)
    ELSE AIMessage("", EmptyKwargs,
                   [i \in 1..Len(resp.requests) |->
                       ToolCall(CallIdOf[r][n + i], resp.requests[i].name,
                                resp.requests[i].args)])

\* a router that always ends the run
ShouldContinueAlwaysEnd(msgs) == "end"

\* should_continue
ShouldContinue(msgs) ==
    IF msgs[Len(msgs)].tool_calls # <<>> THEN "tools" ELSE "end"

\* a loop guard that allows one superstep too many
OutOfStepsLate(n) == n >= RecursionLimit + 1

\* langgraph's loop guard, checked before a node runs
OutOfSteps(n) == n >= RecursionLimit

Pending == "<pending>"

\* a checkpoint built from the state before the step
StateCheckpointStale(r, msgs) ==
    Checkpoint(1, "ts", CheckpointIdOf[r][step[r] + 1 + (IF pc[r] = "START" THEN 0 ELSE 1)],
               messages[r], "cv", "vs")

\* the checkpoint langgraph builds from the state after a step
StateCheckpoint(r, msgs) ==
    Checkpoint(1, "ts", CheckpointIdOf[r][step[r] + 1 + (IF pc[r] = "START" THEN 0 ELSE 1)],
               msgs, "cv", "vs")

\* an aput that stores nothing
PutStateNowhere(r, msgs) == UNCHANGED <<conversations, rows, written, now>>

\* aput of the new state; the database clock has moved on when the next
\* transaction begins
PutState(r, msgs) ==
    /\ conversations' = EnsureConversationExists(conversations, thread[r])
    /\ rows' = PutRows(rows, thread[r], StateCheckpoint(r, msgs), now)
    /\ written' = Append(written, StateCheckpoint(r, msgs))
    /\ now' = now + 1

\* an exception that is swallowed: chat goes on to its end
FailSwallowed(r, e) ==
    /\ pc' = [pc EXCEPT ![r] = "END"]
    /\ error' = [error EXCEPT ![r] = e]

\* an exception leaves agent.ainvoke and chat
Fail(r, e) ==
    /\ pc' = [pc EXCEPT ![r] = "FAILED"]
    /\ error' = [error EXCEPT ![r] = e]

\* chat, up to the first await: the global is rebound to a fresh dict
ChatStart(r, thread_id) ==
    /\ pc[r] = "idle"
    /\ pc' = [pc EXCEPT ![r] = "START"]
    /\ thread' = [thread EXCEPT ![r] = thread_id]
    /\ crd' = EmptyRequestData
    /\ before' = [before EXCEPT ![r] = LatestCandidates(rows, thread_id)]
    /\ UNCHANGED <<messages, step, error, ncalls, results, outcome, response, own, request, tx, http>>
    /\ UNCHANGED storeVars

\* agent.ainvoke begins: aget_tuple, the input is added to the loaded
\* messages, the state is put
LoadStep(r, getFault, putFault) ==
    /\ pc[r] = "START"
    /\ \E loaded \in (IF getFault \/ LatestCandidates(rows, thread[r]) = {}
                      THEN {<<>>}
                      ELSE {LoadCheckpoint(rows[i]).channel_values.messages :
                               i \in LatestCandidates(rows, thread[r])}) :
          LET msgs == Append(loaded, HumanMessage(UserMessage[r]))
          IN /\ messages' = [messages EXCEPT ![r] = msgs]
             /\ IF putFault
                THEN /\ Fail(r, "persistence")
                     /\ UNCHANGED storeVars
                ELSE /\ PutState(r, msgs)
                     /\ pc' = [pc EXCEPT ![r] = "REASON"]
                     /\ UNCHANGED <<error, ret>>
    /\ UNCHANGED <<thread, step, ncalls, results, outcome, crd, response, before, own, request, tx, http>>

\* the agent node, then should_continue; at "end" ainvoke returns and chat
\* builds its response from the last message and the global
AgentStep(r, resp, putFault) ==
    /\ pc[r] = "REASON"
    /\ ~OutOfSteps(step[r])
    /\ IF resp.kind = "fail"
       THEN /\ Fail(r, "provider")
            /\ UNCHANGED <<messages, step, ncalls, results, outcome, response>>
            /\ UNCHANGED storeVars
       ELSE LET msg == ResponseMessage(r, resp, ncalls[r])
                msgs == Append(messages[r], msg)
            IN /\ ncalls[r] + Len(msg.tool_calls) <= Len(CallIdOf[r])
               /\ messages' = [messages EXCEPT ![r] = msgs]
               /\ ncalls' = [ncalls EXCEPT ![r] = @ + Len(msg.tool_calls)]
               /\ step' = [step EXCEPT ![r] = @ + 1]
               /\ IF putFault
                  THEN /\ Fail(r, "persistence")
                       /\ UNCHANGED <<results, outcome, response>>
                       /\ UNCHANGED storeVars
                  ELSE /\ PutState(r, msgs)
                       /\ UNCHANGED <<error, ret>>
                       /\ IF ShouldContinue(msgs) = "tools"
                          THEN /\ pc' = [pc EXCEPT ![r] = "TOOLS"]
                               /\ results' = [results EXCEPT ![r] =
                                     [i \in 1..Len(msg.tool_calls) |-> Pending]]
                               /\ outcome' = [outcome EXCEPT ![r] =
                                     [i \in 1..Len(msg.tool_calls) |-> Pending]]
                               /\ UNCHANGED response
                          ELSE /\ pc' = [pc EXCEPT ![r] = "END"]
                               /\ response' = [response EXCEPT ![r] =
                                     [returned |-> TRUE, response |-> msg.content,
                                      data_store |-> crd]]
                               /\ UNCHANGED <<results, outcome>>
    /\ UNCHANGED <<thread, crd, before, own, request, tx, http>>

\* the tools node runs the calls of the last message concurrently; one call
\* completes
ToolRun(r, i, oc) ==
    /\ pc[r] = "TOOLS"
    /\ ~OutOfSteps(step[r])
    /\ i \in 1..Len(results[r])
    /\ results[r][i] = Pending
    /\ LET call == messages[r][Len(messages[r])].tool_calls[i]
           res == RunTool(r, call, oc)
       IN IF res.raised
          THEN /\ Fail(r, "tool")
               /\ UNCHANGED <<results, outcome, crd, own>>
          ELSE /\ results' = [results EXCEPT ![r][i] = res.content]
               /\ outcome' = [outcome EXCEPT ![r][i] = oc]
               /\ crd' = Deposit(crd, res.deposits)
               /\ own' = [own EXCEPT ![r] = @ \cup {<<d.data_type, d.key>> : d \in res.deposits}]
               /\ UNCHANGED <<pc, error>>
    /\ UNCHANGED <<thread, messages, step, ncalls, response, before, request, tx, http>>
    /\ UNCHANGED storeVars

\* all calls of the turn are done: one ToolMessage per call, in call order,
\* is added and the state is put
ToolsDone(r, putFault) ==
    /\ pc[r] = "TOOLS"
    /\ ~OutOfSteps(step[r])
    /\ \A i \in 1..Len(results[r]) : results[r][i] # Pending
    /\ LET tool_calls == messages[r][Len(messages[r])].tool_calls
           msgs == messages[r] \o
                     [i \in 1..Len(tool_calls) |-> ToolMessage(results[r][i], tool_calls[i].id)]
       IN /\ messages' = [messages EXCEPT ![r] = msgs]
          /\ step' = [step EXCEPT ![r] = @ + 1]
          /\ results' = [results EXCEPT ![r] = <<>>]
          /\ outcome' = [outcome EXCEPT ![r] = <<>>]
          /\ IF putFault
             THEN /\ Fail(r, "persistence")
                  /\ UNCHANGED storeVars
             ELSE /\ PutState(r, msgs)
                  /\ pc' = [pc EXCEPT ![r] = "REASON"]
                  /\ UNCHANGED <<error, ret>>
    /\ UNCHANGED <<thread, ncalls, crd, response, before, own, request, tx, http>>

\* GraphRecursionError: the limit is reached with a node still to run
RecursionStop(r) ==
    /\ pc[r] \in {"REASON", "TOOLS"}
    /\ OutOfSteps(step[r])
    /\ Fail(r, "GraphRecursionError")
    /\ UNCHANGED <<thread, messages, step, ncalls, results, outcome, crd, response,
                   before, own, request, tx, http>>
    /\ UNCHANGED storeVars

RunStep(r) ==
    \/ \E getFault, putFault \in BOOLEAN : LoadStep(r, getFault, putFault)
    \/ \E resp \in LLMResponses, putFault \in BOOLEAN : AgentStep(r, resp, putFault)
    \/ \E i \in 1..2, oc \in ProviderOutcomes : ToolRun(r, i, oc)
    \/ \E putFault \in BOOLEAN : ToolsDone(r, putFault)
    \/ RecursionStop(r)

\* chat invocations made one after another: A, on thread "t1", then B on
\* the same thread or on another
Quiet(r, thread_id) ==
    /\ \A q \in Runs \ {r} : pc[q] \in {"idle", "END", "FAILED"}
    /\ r = "A" => thread_id = "t1"
    /\ r = "B" => pc["A"] # "idle"

Next ==
    \/ \E r \in Runs, thread_id \in ChatThreads :
          Quiet(r, thread_id) /\ ChatStart(r, thread_id)
    \/ \E r \in Runs : RunStep(r)

Spec == Init /\ [][Next]_vars

(***************************************************************************)
(* One chat invocation alone.  Every await of the run returns (each        *)
(* outbound call carries a timeout), so a run that can step does step.     *)
(***************************************************************************)
SingleNext ==
    \/ ChatStart("A", "t1")
    \/ RunStep("A")

SpecSingle == Init /\ [][SingleNext]_vars /\ WF_vars(RunStep("A"))

(***************************************************************************)
(* Two chat invocations served by the one event loop: their steps          *)
(* interleave at the awaits.  Writes succeed and the providers answer.     *)
(***************************************************************************)
ConcurrentResponses ==
    {[kind |-> "final"],
     [kind |-> "tools", requests |-> <<Request("search_news", NewsArgs)>>]}

ConcurrentNext ==
    \/ \E r \in Runs, thread_id \in ChatThreads : ChatStart(r, thread_id)
    \/ \E r \in Runs : LoadStep(r, FALSE, FALSE)
    \/ \E r \in Runs, resp \in ConcurrentResponses : AgentStep(r, resp, FALSE)
    \/ \E r \in Runs : ToolRun(r, 1, "ok")
    \/ \E r \in Runs : ToolsDone(r, FALSE)
    \/ \E r \in Runs : RecursionStop(r)

SpecConcurrent == Init /\ [][ConcurrentNext]_vars

(***************************************************************************)
(* One chat invocation whose model asks for every search tool, with two    *)
(* different flight searches, against every provider outcome.              *)
(***************************************************************************)
ReturnFlightArgs == [departure |-> "Delhi", arrival |-> "Mumbai", outbound_date |-> "2025-12-20"]
ToolsResponses ==
    {[kind |-> "final"],
     [kind |-> "tools", requests |-> <<Request("search_flights", FlightArgs),
                                       Request("search_hotels", HotelArgs)>>],
     [kind |-> "tools", requests |-> <<Request("search_flights", ReturnFlightArgs),
                                       Request("search_news", NewsArgs)>>]}

ToolsNext ==
    \/ ChatStart("A", "t1")
    \/ LoadStep("A", FALSE, FALSE)
    \/ \E resp \in ToolsResponses : AgentStep("A", resp, FALSE)
    \/ \E i \in 1..2, oc \in ProviderOutcomes : ToolRun("A", i, oc)
    \/ ToolsDone("A", FALSE)
    \/ RecursionStop("A")

SpecTools == Init /\ [][ToolsNext]_vars

(***************************************************************************)
(* The HTTP API (api/v1/routes/chat.py, data.py): POST /chat validates the *)
(* body against ChatRequest and calls chat; GET /data/{data_type}/{key}    *)
(* and DELETE /chat/clear-data read and reset the request data store.      *)
(* Chat requests are served one after another, all on thread "t1"; the     *)
(* data routes are called at any time.  Writes succeed.                    *)
(***************************************************************************)
RequestMessages(r) == {"", UserMessage[r]}

\* a request model without the length constraint
ValidRequestAny(message) == TRUE

\* ChatRequest.message: Field(..., min_length=1)
ValidRequest(message) == message # ""

\* the body of a POST /chat arrives
ReceiveRequest(r, message) ==
    /\ pc[r] = "idle"
    /\ request[r] = None
    /\ request' = [request EXCEPT ![r] = message]
    /\ UNCHANGED <<pc, thread, messages, step, error, ncalls, results, outcome, crd,
                   response, before, own, tx, http>>
    /\ UNCHANGED storeVars

\* the body does not validate: 422, chat_endpoint is not entered
RejectRequest(r) ==
    /\ pc[r] = "idle"
    /\ request[r] # None
    /\ ~ValidRequest(request[r])
    /\ pc' = [pc EXCEPT ![r] = "REJECTED"]
    /\ error' = [error EXCEPT ![r] = "validation"]
    /\ UNCHANGED <<thread, messages, step, ncalls, results, outcome, crd, response,
                   before, own, request, tx, http>>
    /\ UNCHANGED storeVars

\* chat_endpoint: the validated message goes to chat
ChatEndpoint(r, thread_id) ==
    /\ request[r] # None
    /\ ValidRequest(request[r])
    /\ ChatStart(r, thread_id)

ApiResponses ==
    {[kind |-> "final"],
     [kind |-> "tools", requests |-> <<Request("search_flights", FlightArgs),
                                       Request("search_news", NewsArgs)>>]}
ApiOutcomes == {"ok", "no_code"}
DataKeys == {FlightsKey(FlightArgs), NewsKey(NewsArgs)}

\* a lookup that finds every key
GetStoredDataAlways(store, data_type, key) == [found |-> TRUE, data |-> [by |-> None, of |-> data_type]]

\* get_stored_data: _current_request_data.get(data_type, {}).get(key, {})
GetStoredData(store, data_type, key) ==
    IF data_type \in DOMAIN store /\ key \in DOMAIN store[data_type]
    THEN [found |-> TRUE, data |-> store[data_type][key]]
    ELSE [found |-> FALSE]

\* GET /data/{data_type}/{key}: 404 when the lookup gives {}
GetData(data_type, key) ==
    /\ LET data == GetStoredData(crd, data_type, key)
       IN ret' = IF data.found
                 THEN [op |-> "get_data", data_type |-> data_type, key |-> key,
                       status |-> 200, data |-> data.data]
                 ELSE [op |-> "get_data", data_type |-> data_type, key |-> key,
                       status |-> 404]
    /\ UNCHANGED <<rows, conversations, now, written>>
    /\ UNCHANGED runVars

\* DELETE /chat/clear-data: clear_data_store rebinds the global
ClearData ==
    /\ crd' = EmptyRequestData
    /\ ret' = [op |-> "clear_data", status |-> "success"]
    /\ UNCHANGED <<rows, conversations, now, written>>
    /\ UNCHANGED <<pc, thread, messages, step, error, ncalls, results, outcome,
                   response, before, own, request, tx, http>>

ApiQuiet(r) ==
    /\ \A q \in Runs \ {r} : pc[q] \in {"idle", "END", "FAILED", "REJECTED"}
    /\ r = "B" => pc["A"] # "idle"

ApiNext ==
    \/ \E r \in Runs : \E message \in RequestMessages(r) :
          ApiQuiet(r) /\ ReceiveRequest(r, message)
    \/ \E r \in Runs : RejectRequest(r)
    \/ \E r \in Runs : ChatEndpoint(r, "t1")
    \/ \E r \in Runs : LoadStep(r, FALSE, FALSE)
    \/ \E r \in Runs, resp \in ApiResponses : AgentStep(r, resp, FALSE)
    \/ \E r \in Runs, i \in 1..2, oc \in ApiOutcomes : ToolRun(r, i, oc)
    \/ \E r \in Runs : ToolsDone(r, FALSE)
    \/ \E r \in Runs : RecursionStop(r)
    \/ \E data_type \in DataTypes, key \in DataKeys : GetData(data_type, key)
    \/ ClearData

SpecApi == Init /\ [][ApiNext]_vars

\* the module level names of services/ai_service.py
AiServiceNames ==
    {"logger", "get_current_date_info", "SYSTEM_PROMPT", "llm", "_current_request_data",
     "get_current_date", "search_flights", "search_hotels", "search_news", "tools",
     "llm_with_tools", "AgentState", "agent_node", "should_continue",
     "create_agent_graph", "agent", "chat", "get_stored_data", "clear_data_store",
     "get_conversation_history",
     "os", "logging", "Literal", "datetime", "timedelta", "load_dotenv", "ChatOpenAI",
     "HumanMessage", "tool", "StateGraph", "MessagesState", "START", "END", "ToolNode"}

\* GET /data/keys/{data_type}: list_keys imports _data_store from
\* services.ai_service; the ImportError of a name the module does not define
\* is caught and answered with 500
ListKeys(data_type) ==
    /\ "_data_store" \notin AiServiceNames
    /\ ret' = [op |-> "list_keys", data_type |-> data_type, status |-> 500]
    /\ UNCHANGED <<rows, conversations, now, written>>
    /\ UNCHANGED runVars

KeysNext ==
    \/ ApiNext
    \/ \E data_type \in DataTypes : ListKeys(data_type)

SpecKeys == Init /\ [][KeysNext]_vars

(***************************************************************************)
(* GET /chat/history/{thread_id} between and after chat invocations made   *)
(* one after another.  get_conversation_history reads the thread's state   *)
(* through get_tuple and get, where a database error becomes None.         *)
(***************************************************************************)
HistoryResponses ==
    {[kind |-> "final"],
     [kind |-> "tools", requests |-> <<Request("get_current_date", NoArgs)>>]}

\* formatted_messages: role is msg.type, content is msg.content
FormatMessages(msgs) ==
    [k \in 1..Len(msgs) |-> [role |-> msgs[k].type, content |-> msgs[k].content]]

\* get_history -> get_conversation_history -> agent.get_state -> get_tuple
GetHistory(thread_id, fault) ==
    /\ \/ /\ fault \/ ThreadRows(rows, thread_id) = {}
          /\ ret' = [op |-> "get_history", thread_id |-> thread_id, row |-> 0,
                     messages |-> <<>>]
       \/ /\ ~fault
          /\ \E i \in LatestCandidates(rows, thread_id) :
                ret' = [op |-> "get_history", thread_id |-> thread_id, row |-> i,
                        messages |-> FormatMessages(LoadCheckpoint(rows[i]).channel_values.messages)]
    /\ UNCHANGED <<rows, conversations, now, written>>
    /\ UNCHANGED runVars

HistoryNext ==
    \/ \E r \in Runs, thread_id \in ChatThreads :
          Quiet(r, thread_id) /\ ChatStart(r, thread_id)
    \/ \E r \in Runs : LoadStep(r, FALSE, FALSE)
    \/ \E r \in Runs, resp \in HistoryResponses : AgentStep(r, resp, FALSE)
    \/ \E r \in Runs : ToolRun(r, 1, "ok")
    \/ \E r \in Runs : ToolsDone(r, FALSE)
    \/ \E r \in Runs : RecursionStop(r)
    \/ \E thread_id \in ChatThreads, fault \in BOOLEAN : GetHistory(thread_id, fault)

SpecHistory == Init /\ [][HistoryNext]_vars

(***************************************************************************)
(* The parsers that reduce a provider answer to the compact view (TOON)    *)
(* and the full payload (hotel_service.py, flight_service.py,              *)
(* news_service.py).  A compact view is its header (name, count, field     *)
(* list) and its record lines; a formatted string is the tuple of the      *)
(* pieces it is put together from.                                         *)
(***************************************************************************)
\* all sequences over S of length 0..n
SeqsUpTo(S, n) == UNION {[1..k -> S] : k \in 0..n}

\* sep.join(items)
RECURSIVE Join(_, _)
Join(items, sep) ==
    IF Len(items) = 0 THEN <<>>
    ELSE IF Len(items) = 1 THEN <<items[1]>>
    ELSE <<items[1], sep>> \o Join(Tail(items), sep)

\* a summary that shows three items before the suffix
AmenitiesSummaryThree(amenities) ==
    IF Len(amenities) = 0 THEN <<"None">>
    ELSE IF Len(amenities) <= 3 THEN Join(amenities, ", ")
    ELSE Join(SubSeq(amenities, 1, 3), ", ")
            \o <<", +", ToString(Len(amenities) - 3), " more">>

\* parse_hotel_json: amenities_summary
AmenitiesSummary(amenities) ==
    IF Len(amenities) = 0 THEN <<"None">>
    ELSE IF Len(amenities) <= 3 THEN Join(amenities, ", ")
    ELSE Join(SubSeq(amenities, 1, 2), ", ")
            \o <<", +", ToString(Len(amenities) - 2), " more">>

HotelFields ==
    <<"idx", "name", "city", "country", "price_per_night", "total_price", "rating",
      "reviews", "location_rating", "amenities_summary">>

\* parse_hotel_json
ParseHotelJson(data) ==
    LET properties == data.properties
    IN [toon |-> [header |-> [name |-> "properties", count |-> Len(properties),
                              fields |-> HotelFields],
                  lines |-> [i \in 1..Len(properties) |->
                               [idx |-> i, name |-> properties[i].name,
                                amenities_summary |-> AmenitiesSummary(properties[i].amenities)]]],
        full_data |-> [properties |->
                         [i \in 1..Len(properties) |->
                            [idx |-> i, name |-> properties[i].name,
                             amenities |-> properties[i].amenities]]]]

\* provider answers: hotels with 0..MaxAmenities amenities
AmenityNames == <<"Pool", "Free Wi-Fi", "Spa", "Gym", "Bar", "Parking", "Restaurant">>
RawProperties ==
    {[name |-> "Hotel", amenities |-> SubSeq(AmenityNames, 1, n)] : n \in 0..MaxAmenities}
RawHotelData == {[properties |-> ps] : ps \in SeqsUpTo(RawProperties, MaxRecords)}

ParseHotels(data) ==
    /\ ret' = [op |-> "parse_hotel_json", data |-> data,
               toon |-> ParseHotelJson(data).toon,
               full_data |-> ParseHotelJson(data).full_data]
    /\ UNCHANGED <<rows, conversations, now, written>>
    /\ UNCHANGED runVars

\* a stop count that counts the segments
StopsAsSegments(segments) == Len(segments)

\* parse_flight_data_to_toon: stops = len(segments) - 1
Stops(segments) == Len(segments) - 1

\* a compact view with one line per option
OptionLinesFirst(flight, idx) ==
    IF Len(flight.flights) = 0 THEN <<>>
    ELSE <<[idx |-> idx, price |-> flight.price, duration |-> flight.total_duration,
            stops |-> Stops(flight.flights),
            dep |-> flight.flights[1].departure_airport,
            arr |-> flight.flights[1].arrival_airport,
            airline |-> flight.flights[1].airline,
            flight_num |-> flight.flights[1].flight_number]>>

\* parse_flight_data_to_toon: the compact lines of one option, one per segment
OptionLines(flight, idx) ==
    [k \in 1..Len(flight.flights) |->
       [idx |-> idx, price |-> flight.price, duration |-> flight.total_duration,
        stops |-> Stops(flight.flights),
        dep |-> flight.flights[k].departure_airport,
        arr |-> flight.flights[k].arrival_airport,
        airline |-> flight.flights[k].airline,
        flight_num |-> flight.flights[k].flight_number]]

\* the loop over flights_list from option idx on
RECURSIVE FlightLines(_, _)
FlightLines(flights_list, idx) ==
    IF idx > Len(flights_list) THEN <<>>
    ELSE OptionLines(flights_list[idx], idx) \o FlightLines(flights_list, idx + 1)

FlightFields ==
    <<"idx", "price", "duration", "stops", "departure", "arrival", "airline", "flight_num">>

\* flight_data.get("other_flights", []) or flight_data.get("best_flights", [])
FlightsList(flight_data) ==
    IF Len(flight_data.other_flights) # 0 THEN flight_data.other_flights
    ELSE flight_data.best_flights

\* parse_flight_data_to_toon
ParseFlightDataToToon(flight_data) ==
    LET flights_list == FlightsList(flight_data)
    IN IF Len(flights_list) = 0
       THEN [toon |-> [text |-> "No flights found."],
             full_data |-> [flights |-> <<>>]]
       ELSE [toon |-> [header |-> [name |-> "flights", count |-> Len(flights_list),
                                   fields |-> FlightFields],
                       lines |-> FlightLines(flights_list, 1)],
             full_data |-> [flights |->
                              [i \in 1..Len(flights_list) |->
                                 [idx |-> i, price |-> flights_list[i].price,
                                  duration |-> flights_list[i].total_duration,
                                  stops |-> Stops(flights_list[i].flights),
                                  segments |-> flights_list[i].flights,
                                  raw_data |-> flights_list[i]]]]]

\* provider answers: options of 0..MaxSegments segments
Airports == <<"DEL", "DXB", "LHR", "JFK", "SFO", "HNL">>
Segment(k) ==
    [departure_airport |-> Airports[k], arrival_airport |-> Airports[k + 1],
     airline |-> "Air", flight_number |-> ToString(100 + k)]
RawOptions ==
    {[price |-> p, total_duration |-> 120 * n + 60,
      flights |-> [k \in 1..n |-> Segment(k)]] : p \in {100, 250}, n \in 0..MaxSegments}
BestOption == [price |-> 90, total_duration |-> 180, flights |-> <<Segment(1)>>]
RawFlightData ==
    {[other_flights |-> os, best_flights |-> bs] :
       os \in SeqsUpTo(RawOptions, MaxRecords), bs \in {<<>>, <<BestOption>>}}

ParseFlights(flight_data) ==
    /\ ret' = [op |-> "parse_flight_data_to_toon", data |-> flight_data,
               toon |-> ParseFlightDataToToon(flight_data).toon,
               full_data |-> ParseFlightDataToToon(flight_data).full_data]
    /\ UNCHANGED <<rows, conversations, now, written>>
    /\ UNCHANGED runVars

NewsFields == <<"idx", "title", "source", "date", "snippet">>

\* parse_news_data
ParseNewsData(news_json) ==
    LET organic_results == news_json.organic_results
    IN [toon |-> [header |-> [name |-> "news_articles", count |-> Len(organic_results),
                              fields |-> NewsFields],
                  lines |-> [i \in 1..Len(organic_results) |->
                               [idx |-> i, title |-> organic_results[i].title,
                                source |-> organic_results[i].source]]],
        full_data |-> [articles |->
                         [i \in 1..Len(organic_results) |->
                            [idx |-> i, position |-> organic_results[i].position,
                             title |-> organic_results[i].title,
                             source |-> organic_results[i].source]]]]

RawArticles ==
    {[position |-> n, title |-> t, source |-> "Gazette"] :
       n \in 1..MaxRecords, t \in {"Strike", "Festival"}}
RawNewsData == {[organic_results |-> as] : as \in SeqsUpTo(RawArticles, MaxRecords)}

ParseNews(news_json) ==
    /\ ret' = [op |-> "parse_news_data", data |-> news_json,
               toon |-> ParseNewsData(news_json).toon,
               full_data |-> ParseNewsData(news_json).full_data]
    /\ UNCHANGED <<rows, conversations, now, written>>
    /\ UNCHANGED runVars

\* search_flights, search_hotels, search_news on a provider answer that
\* arrived: the content returned to the agent and the payloads deposited
SearchFlightsOn(flight_data) ==
    [content |-> ParseFlightDataToToon(flight_data).toon,
     deposits |-> <<ParseFlightDataToToon(flight_data).full_data>>]

SearchHotelsOn(hotel_data) ==
    [content |-> ParseHotelJson(hotel_data).toon,
     deposits |-> <<ParseHotelJson(hotel_data).full_data>>]

SearchNewsOn(news_data) ==
    IF Len(news_data.organic_results) = 0
    THEN [content |-> [text |-> "No news articles found for the given query."],
          deposits |-> <<>>]
    ELSE [content |-> ParseNewsData(news_data).toon,
          deposits |-> <<ParseNewsData(news_data).full_data>>]

ToolOnFlights(flight_data) ==
    /\ ret' = [op |-> "search_flights", data |-> flight_data,
               content |-> SearchFlightsOn(flight_data).content,
               deposits |-> SearchFlightsOn(flight_data).deposits]
    /\ UNCHANGED <<rows, conversations, now, written>>
    /\ UNCHANGED runVars

ToolOnHotels(hotel_data) ==
    /\ ret' = [op |-> "search_hotels", data |-> hotel_data,
               content |-> SearchHotelsOn(hotel_data).content,
               deposits |-> SearchHotelsOn(hotel_data).deposits]
    /\ UNCHANGED <<rows, conversations, now, written>>
    /\ UNCHANGED runVars

ToolOnNews(news_data) ==
    /\ ret' = [op |-> "search_news", data |-> news_data,
               content |-> SearchNewsOn(news_data).content,
               deposits |-> SearchNewsOn(news_data).deposits]
    /\ UNCHANGED <<rows, conversations, now, written>>
    /\ UNCHANGED runVars

ParseNext ==
    \/ \E flight_data \in RawFlightData : ToolOnFlights(flight_data)
    \/ \E hotel_data \in RawHotelData : ToolOnHotels(hotel_data)
    \/ \E news_data \in RawNewsData : ToolOnNews(news_data)
    \/ \E data \in RawHotelData : ParseHotels(data)
    \/ \E flight_data \in RawFlightData : ParseFlights(flight_data)
    \/ \E news_json \in RawNewsData : ParseNews(news_json)

SpecParse == Init /\ [][ParseNext]_vars

(***************************************************************************)
(* get_current_date (ai_service.py): the month to year guide and the next  *)
(* 18th, computed from today's date.  A guide entry gives the year for a   *)
(* day after today's day of month and the year for a day up to it; the     *)
(* two are equal except in the entry of the current month.                 *)
(***************************************************************************)
Years == {2024, 2025}
IsLeap(y) == (y % 4 = 0 /\ y % 100 # 0) \/ y % 400 = 0
DaysInMonth(y, m) ==
    IF m = 2 THEN (IF IsLeap(y) THEN 29 ELSE 28)
    ELSE IF m \in {4, 6, 9, 11} THEN 30 ELSE 31
Dates ==
    {[year |-> y, month |-> m, day |-> dd] : y \in Years, m \in 1..12, dd \in 1..31}
Todays == {t \in Dates : t.day <= DaysInMonth(t.year, t.month)}

\* a guide whose current month entry is the other way round
MonthYearGuideDayPassedThisYear(today) ==
    [month_num \in 1..12 |->
       IF month_num < today.month
       THEN [day |-> today.day, after |-> today.year + 1, upto |-> today.year + 1]
       ELSE IF month_num = today.month
       THEN [day |-> today.day, after |-> today.year + 1, upto |-> today.year]
       ELSE [day |-> today.day, after |-> today.year, upto |-> today.year]]

\* month_year_guide
MonthYearGuide(today) ==
    [month_num \in 1..12 |->
       IF month_num < today.month
       THEN [day |-> today.day, after |-> today.year + 1, upto |-> today.year + 1]
       ELSE IF month_num = today.month
       THEN [day |-> today.day, after |-> today.year, upto |-> today.year + 1]
       ELSE [day |-> today.day, after |-> today.year, upto |-> today.year]]

\* an 18th that stays in this month on the 18th itself
EighteenthToday(today) ==
    IF today.day <= 18
    THEN [year |-> today.year, month |-> today.month, day |-> 18]
    ELSE IF today.month = 12
    THEN [year |-> today.year + 1, month |-> 1, day |-> 18]
    ELSE [year |-> today.year, month |-> today.month + 1, day |-> 18]

\* the 18th of the current or the next month
Eighteenth(today) ==
    IF today.day < 18
    THEN [year |-> today.year, month |-> today.month, day |-> 18]
    ELSE IF today.month = 12
    THEN [year |-> today.year + 1, month |-> 1, day |-> 18]
    ELSE [year |-> today.year, month |-> today.month + 1, day |-> 18]

CurrentDate(today) ==
    /\ ret' = [op |-> "get_current_date", today |-> today,
               eighteenth |-> Eighteenth(today),
               month_year_guide |-> MonthYearGuide(today)]
    /\ UNCHANGED <<rows, conversations, now, written>>
    /\ UNCHANGED runVars

DateNext == \E today \in Todays : CurrentDate(today)

SpecDate == Init /\ [][DateNext]_vars

(***************************************************************************)
(* put then get on a checkpoint with a channel beside "messages"           *)
(* (db_checkpointer.py:86-94, 149-156, 293-322, 354-356).  A python value  *)
(* is its kind with its text, keys and items; a JSON document is written   *)
(* the same way with the kinds of JSON.  json.dumps writes a list and a    *)
(* tuple as an array and raises for an object it does not know;            *)
(* json.loads reads an array as a list.                                    *)
(***************************************************************************)
PyNone == [kind |-> "none", text |-> "", keys |-> <<>>, items |-> <<>>]
PyStr(text) == [kind |-> "str", text |-> text, keys |-> <<>>, items |-> <<>>]
PyInt(text) == [kind |-> "int", text |-> text, keys |-> <<>>, items |-> <<>>]
PyObject(text) == [kind |-> "object", text |-> text, keys |-> <<>>, items |-> <<>>]
PyList(items) == [kind |-> "list", text |-> "", keys |-> <<>>, items |-> items]
PyTuple(items) == [kind |-> "tuple", text |-> "", keys |-> <<>>, items |-> items]
PyDict(keys, items) == [kind |-> "dict", text |-> "", keys |-> keys, items |-> items]

\* json.dumps(value) does not raise
RECURSIVE JsonSerializable(_)
JsonSerializable(value) ==
    /\ value.kind # "object"
    /\ \A k \in 1..Len(value.items) : JsonSerializable(value.items[k])

\* json.dumps
RECURSIVE JsonDumps(_)
JsonDumps(value) ==
    [kind |-> (CASE value.kind = "none" -> "null"
                [] value.kind = "str" -> "string"
                [] value.kind = "int" -> "number"
                [] value.kind \in {"list", "tuple"} -> "array"
                [] OTHER -> "object"),
     text |-> value.text,
     keys |-> value.keys,
     items |-> [k \in 1..Len(value.items) |-> JsonDumps(value.items[k])]]

\* json.loads
RECURSIVE JsonLoads(_)
JsonLoads(doc) ==
    [kind |-> (CASE doc.kind = "null" -> "none"
                [] doc.kind = "string" -> "str"
                [] doc.kind = "number" -> "int"
                [] doc.kind = "array" -> "list"
                [] OTHER -> "dict"),
     text |-> doc.text,
     keys |-> doc.keys,
     items |-> [k \in 1..Len(doc.items) |-> JsonLoads(doc.items[k])]]

\* a serialization that turns every other channel value into a string
SerializeValueAlwaysStr(value) == PyStr("str(value)")

\* _serialize_channel_values, a key other than "messages": the value as it
\* is when json.dumps accepts it, str(value) otherwise
SerializeValue(value) ==
    IF JsonSerializable(value) THEN value ELSE PyStr("str(value)")

\* the document put stores and the checkpoint get builds from it
PutThenGetValue(checkpoint) ==
    [v |-> JsonLoads(JsonDumps(checkpoint.v)),
     ts |-> JsonLoads(JsonDumps(checkpoint.ts)),
     id |-> JsonLoads(JsonDumps(checkpoint.id)),
     channel_values |->
        [messages |-> DeserializeChannelValues(
                         SerializeChannelValues(checkpoint.channel_values)).messages,
         other |-> JsonLoads(JsonDumps(SerializeValue(checkpoint.channel_values.other)))],
     channel_versions |-> JsonLoads(JsonDumps(checkpoint.channel_versions)),
     versions_seen |-> JsonLoads(JsonDumps(checkpoint.versions_seen))]

PyScalars == {PyNone, PyStr("x"), PyInt("1"), PyObject("<obj>")}
PyItems == SeqsUpTo(PyScalars, MaxItems)
PyValues ==
    PyScalars
    \cup {PyList(items) : items \in PyItems}
    \cup {PyTuple(items) : items \in PyItems}
    \cup {PyDict([k \in 1..Len(items) |-> <<"a", "b", "c">>[k]], items) : items \in PyItems}
ChannelVersions ==
    {PyDict(<<>>, <<>>),
     PyDict(<<"messages", "__start__">>, <<PyInt("2"), PyInt("1")>>),
     PyDict(<<"messages">>, <<PyStr("00000002.0.5")>>)}
VersionsSeen ==
    {PyDict(<<"__input__">>, <<PyDict(<<>>, <<>>)>>),
     PyDict(<<"__input__", "agent">>,
            <<PyDict(<<>>, <<>>), PyDict(<<"messages">>, <<PyInt("2")>>)>>)}
ChannelCheckpoints ==
    {[v |-> PyInt("1"), ts |-> PyStr("2025-11-15T10:00:00"), id |-> PyStr("c1"),
      channel_values |-> [messages |-> <<HumanMessage("h")>>, other |-> value],
      channel_versions |-> versions, versions_seen |-> seen] :
        value \in PyValues, versions \in ChannelVersions, seen \in VersionsSeen}

PutThenGet(checkpoint) ==
    /\ ret.op # "put_get"
    /\ ret' = [op |-> "put_get", put |-> checkpoint, got |-> PutThenGetValue(checkpoint)]
    /\ UNCHANGED <<rows, conversations, now, written>>
    /\ UNCHANGED runVars

ChannelsNext == \E checkpoint \in ChannelCheckpoints : PutThenGet(checkpoint)

SpecChannels == Init /\ [][ChannelsNext]_vars

(***************************************************************************)
(* put as the database sees it (db_checkpointer.py:35-60, 83-121): one     *)
(* session per call; the SELECT of the conversation, its INSERT, and the   *)
(* INSERT of the checkpoint are statements of one transaction that         *)
(* _get_session commits when the block ends and rolls back on any          *)
(* exception.  Two callers are two sessions on the same database; what a   *)
(* session has flushed is visible to the others when it commits.           *)
(* conversations.thread_id is unique (models.py:40): an INSERT of a        *)
(* thread_id that another open transaction has inserted waits for that     *)
(* transaction, and fails when the thread_id is committed.                 *)
(***************************************************************************)
TxConfigs == Configs
TxCheckpoint == Checkpoint(1, "ts", "c1", <<HumanMessage("h")>>, "cv", "vs")

InPut(p) == tx[p].pc \in {"begun", "checked", "ensured", "added"}

\* a rollback that leaves a flushed conversation in the table
RolledBackKeepsFlushed(convs, t) ==
    IF t.pc \in {"ensured", "added"} /\ t.conv THEN convs \cup {ThreadId(t.config)}
    ELSE convs

\* session.rollback(): what the session flushed is discarded
RolledBack(convs, t) == convs

\* _get_session: except -> rollback, raise; put raises again
Rollback(p, cause) ==
    /\ tx' = [tx EXCEPT ![p] = [@ EXCEPT !.pc = "failed", !.cause = cause]]
    /\ conversations' = RolledBack(conversations, tx[p])
    /\ ret' = [op |-> "put", raised |-> TRUE, config |-> tx[p].config]
    /\ UNCHANGED <<rows, now, written>>

\* put is called: SessionLocal()
TxBegin(p, config) ==
    /\ ~InPut(p)
    /\ Len(rows) + Cardinality({q \in Runs : InPut(q)}) < MaxRows
    /\ tx' = [tx EXCEPT ![p] = [pc |-> "begun", config |-> config,
                                found |-> FALSE, conv |-> FALSE, cause |-> None]]
    /\ UNCHANGED <<rows, conversations, now, written, ret>>

\* _ensure_conversation_exists: the SELECT
TxSelect(p) ==
    /\ tx[p].pc = "begun"
    /\ tx' = [tx EXCEPT ![p] = [@ EXCEPT !.pc = "checked",
                                         !.found = ThreadId(tx[p].config) \in conversations]]
    /\ UNCHANGED <<rows, conversations, now, written, ret>>

\* _ensure_conversation_exists: add and flush when the SELECT found nothing
TxCreate(p) ==
    /\ tx[p].pc = "checked"
    /\ \A q \in Runs \ {p} :
          ~(InPut(q) /\ tx[q].conv /\ ThreadId(tx[q].config) = ThreadId(tx[p].config))
    /\ IF tx[p].found
       THEN /\ tx' = [tx EXCEPT ![p] = [@ EXCEPT !.pc = "ensured"]]
            /\ UNCHANGED <<rows, conversations, now, written, ret>>
       ELSE IF ThreadId(tx[p].config) \in conversations
       THEN Rollback(p, "IntegrityError")
       ELSE /\ tx' = [tx EXCEPT ![p] = [@ EXCEPT !.pc = "ensured", !.conv = TRUE]]
            /\ UNCHANGED <<rows, conversations, now, written, ret>>

\* json.dumps, session.add(checkpoint_record), session.flush()
TxAdd(p) ==
    /\ tx[p].pc = "ensured"
    /\ tx' = [tx EXCEPT ![p] = [@ EXCEPT !.pc = "added"]]
    /\ UNCHANGED <<rows, conversations, now, written, ret>>

\* _get_session: session.commit()
TxCommit(p) ==
    /\ tx[p].pc = "added"
    /\ tx' = [tx EXCEPT ![p] = [@ EXCEPT !.pc = "done"]]
    /\ conversations' = EnsureConversationExists(conversations, ThreadId(tx[p].config))
    /\ rows' = PutRows(rows, tx[p].config, TxCheckpoint, now)
    /\ written' = Append(written, TxCheckpoint)
    /\ ret' = [op |-> "put", raised |-> FALSE, config |-> tx[p].config]
    /\ UNCHANGED now

\* a statement or the commit raises a database error
TxFault(p) ==
    /\ InPut(p)
    /\ Rollback(p, "OperationalError")

TxStep(p) ==
    /\ \/ \E config \in TxConfigs : TxBegin(p, config)
       \/ TxSelect(p)
       \/ TxCreate(p)
       \/ TxAdd(p)
       \/ TxCommit(p)
       \/ TxFault(p)
    /\ UNCHANGED <<pc, thread, messages, step, error, ncalls, results, outcome, crd,
                   response, before, own, request, http>>

TxNext ==
    \/ \E p \in Runs : TxStep(p)
    \/ \E config \in TxConfigs : StoreGet(config, FALSE)

SpecTx == Init /\ [][TxNext]_vars

(***************************************************************************)
(* The searches of one chat invocation and the request data store          *)
(* (ai_service.py:299-303, 346-350, 379-382): a search that got an answer  *)
(* stores the full payload the parser made under the key of its arguments. *)
(***************************************************************************)
FlightAnswers ==
    {[other_flights |-> <<>>, best_flights |-> <<>>],
     [other_flights |-> <<>>, best_flights |-> <<BestOption>>]}
HotelAnswers ==
    {[properties |-> <<>>],
     [properties |-> <<[name |-> "Hotel", amenities |-> <<"Pool">>]>>]}
NewsAnswers ==
    {[organic_results |-> <<>>],
     [organic_results |-> <<[position |-> 1, title |-> "Strike", source |-> "Gazette"]>>],
     [organic_results |-> <<[position |-> 1, title |-> "Festival", source |-> "Gazette"]>>]}

\* the deposits of one search, as Deposit takes them
Keyed(data_type, key, deposits) ==
    {[data_type |-> data_type, key |-> key, payload |-> deposits[k]] :
        k \in 1..Len(deposits)}

SearchStep(data_type, key, found) ==
    /\ crd' = Deposit(crd, Keyed(data_type, key, found.deposits))
    /\ ret' = [op |-> "search", data_type |-> data_type, key |-> key,
               deposits |-> found.deposits,
               replaced |-> /\ key \in DOMAIN crd[data_type]
                            /\ found.deposits # <<>>
                            /\ found.deposits # <<crd[data_type][key]>>]
    /\ UNCHANGED <<rows, conversations, now, written>>
    /\ UNCHANGED <<pc, thread, messages, step, error, ncalls, results, outcome,
                   response, before, own, request, tx, http>>

DepositNext ==
    \/ \E args \in {FlightArgs, ReturnFlightArgs}, flight_data \in FlightAnswers :
          SearchStep("flights", FlightsKey(args), SearchFlightsOn(flight_data))
    \/ \E hotel_data \in HotelAnswers :
          SearchStep("hotels", HotelsKey(HotelArgs), SearchHotelsOn(hotel_data))
    \/ \E news_data \in NewsAnswers :
          SearchStep("news", NewsKey(NewsArgs), SearchNewsOn(news_data))

SpecDeposit == Init /\ [][DepositNext]_vars

(***************************************************************************)
(* The shared HTTP client of each search service (flight_service.py:14-31, *)
(* the same in hotel_service.py and news_service.py) and shutdown_event    *)
(* (main.py:65-82).  Clients are numbered in the order a service makes     *)
(* them.  get_http_client has no await and is one step; close_http_client  *)
(* awaits aclose() between its test and its assignment of None, so a       *)
(* request can run in between.  http.shutdown counts the services          *)
(* shutdown_event has closed; outside shutdown close_http_client is called *)
(* by the module's own test main.                                          *)
(***************************************************************************)
\* a get_http_client that makes a client on every call
ClientAfterGetAlwaysNew(client, made) == made + 1

\* get_http_client: the global after the call, which is the client returned
ClientAfterGet(client, made) == IF client = NoClient THEN made + 1 ELSE client

GetHttpClient(s) ==
    /\ http.shutdown = 0
    /\ LET c == ClientAfterGet(http.client[s], http.made[s])
       IN /\ c <= MaxClients
          /\ http' = [http EXCEPT !.client[s] = c,
                                  !.made[s] = IF c > @ THEN c ELSE @,
                                  !.open[s] = IF c > http.made[s] THEN @ \cup {c} ELSE @]
          /\ ret' = [op |-> "get_http_client", service |-> s, client |-> c,
                     open |-> c \in http.open[s] \/ c > http.made[s]]
    /\ UNCHANGED <<rows, conversations, now, written>>
    /\ UNCHANGED <<pc, thread, messages, step, error, ncalls, results, outcome, crd,
                   response, before, own, request, tx>>

\* close_http_client up to the return of aclose(): nothing to do without a
\* client
CloseBegin(s) ==
    /\ http.closing[s] = NoClient
    /\ \A q \in ServiceNames : http.closing[q] = NoClient
    /\ IF http.client[s] = NoClient
       THEN /\ ret' = [op |-> "close_http_client", service |-> s, client |-> NoClient]
            /\ http' = IF http.shutdown > 0 /\ http.shutdown <= Len(Services)
                       THEN [http EXCEPT !.shutdown = @ + 1] ELSE http
       ELSE /\ http' = [http EXCEPT !.closing[s] = http.client[s],
                                    !.open[s] = @ \ {http.client[s]}]
            /\ ret' = [op |-> "aclose", service |-> s, client |-> http.client[s]]
    /\ UNCHANGED <<rows, conversations, now, written>>
    /\ UNCHANGED <<pc, thread, messages, step, error, ncalls, results, outcome, crd,
                   response, before, own, request, tx>>

\* close_http_client after the await: _http_client = None
CloseEnd(s) ==
    /\ http.closing[s] # NoClient
    /\ http' = [http EXCEPT !.client[s] = NoClient,
                            !.closing[s] = NoClient,
                            !.shutdown = IF @ > 0 THEN @ + 1 ELSE @]
    /\ ret' = [op |-> "close_http_client", service |-> s, client |-> http.closing[s]]
    /\ UNCHANGED <<rows, conversations, now, written>>
    /\ UNCHANGED <<pc, thread, messages, step, error, ncalls, results, outcome, crd,
                   response, before, own, request, tx>>

\* a call of close_http_client outside shutdown
CloseHttpClient(s) ==
    /\ http.shutdown = 0
    /\ CloseBegin(s) \/ CloseEnd(s)

\* shutdown_event starts when no request is being served
ShutdownBegin ==
    /\ http.shutdown = 0
    /\ \A q \in ServiceNames : http.closing[q] = NoClient
    /\ http' = [http EXCEPT !.shutdown = 1]
    /\ ret' = [op |-> "shutdown_event"]
    /\ UNCHANGED <<rows, conversations, now, written>>
    /\ UNCHANGED <<pc, thread, messages, step, error, ncalls, results, outcome, crd,
                   response, before, own, request, tx>>

\* shutdown_event closes the clients of the three services in turn
ShutdownStep ==
    /\ http.shutdown \in 1..Len(Services)
    /\ CloseBegin(Services[http.shutdown]) \/ CloseEnd(Services[http.shutdown])

ClientsNext ==
    \/ \E s \in ServiceNames : GetHttpClient(s)
    \/ \E s \in ServiceNames : CloseHttpClient(s)
    \/ ShutdownBegin
    \/ ShutdownStep

SpecClients == Init /\ [][ClientsNext]_vars

(***************************************************************************)
(* The external calls of one run and the number of requests each of them   *)
(* sends.  llm is ChatOpenAI(model, temperature, api_key) with no          *)
(* max_retries argument (ai_service.py:145-149), so the client keeps its   *)
(* default of two retries for a connection error, a rate limit or a server *)
(* error; the search services send one request through httpx              *)
(* (flight_service.py:113-126) and put commits once                        *)
(* (db_checkpointer.py:103-121).                                           *)
(***************************************************************************)
\* retries of the model client when max_retries is not given
MaxRetries == 2

AttemptAnswers == {"ok", "bad_request", "connection_error", "rate_limited", "server_error"}
RetriedAnswers == {"connection_error", "rate_limited", "server_error"}

\* the request that ends the invocation: the first whose answer is not
\* retried, or the last one allowed
RECURSIVE LastAttempt(_, _)
LastAttempt(answers, n) ==
    IF n = Len(answers) \/ answers[n] \notin RetriedAnswers THEN n
    ELSE LastAttempt(answers, n + 1)

\* llm_with_tools.ainvoke(messages) in agent_node
AInvoke(r, answers) ==
    /\ ret' = [op |-> "ainvoke", by |-> r, answers |-> answers,
               attempts |-> LastAttempt(answers, 1),
               failed |-> answers[LastAttempt(answers, 1)] # "ok"]
    /\ UNCHANGED <<rows, conversations, now, written>>
    /\ UNCHANGED runVars

\* client.get(url, headers, params) in get_flight_details, get_hotel_details
\* and get_news: one request, None when it fails
ClientGet(r, service, answer) ==
    /\ ret' = [op |-> "client_get", by |-> r, answers |-> <<answer>>,
               service |-> service, attempts |-> 1,
               failed |-> answer # "ok"]
    /\ UNCHANGED <<rows, conversations, now, written>>
    /\ UNCHANGED runVars

\* put: one add and commit, the exception is raised again
PutOnce(r, fault) ==
    /\ ret' = [op |-> "put", by |-> r,
               answers |-> <<IF fault THEN "connection_error" ELSE "ok">>,
               attempts |-> 1, failed |-> fault]
    /\ UNCHANGED <<rows, conversations, now, written>>
    /\ UNCHANGED runVars

CallsNext ==
    \/ \E r \in Runs, answers \in [1..(MaxRetries + 1) -> AttemptAnswers] : AInvoke(r, answers)
    \/ \E r \in Runs, service \in {"flights", "hotels", "news"},
          answer \in {"ok", "connection_error", "server_error"} : ClientGet(r, service, answer)
    \/ \E r \in Runs, fault \in BOOLEAN : PutOnce(r, fault)

SpecCalls == Init /\ [][CallsNext]_vars

(***************************************************************************)
(* Properties of the store.                                                *)
(***************************************************************************)

\* C1: after any number of puts to a thread, get returns the checkpoint of
\* the put that was made last, whatever the creation timestamps are.
C1_GetLatestReturnsLastPut ==
    (ret.op = "get" /\ ret.row # 0) =>
        ret.value = LoadCheckpoint(rows[LastWritten(rows, ThreadId(ret.config))])

\* the message list b carries what the message list a carried: length, order,
\* role, content, the tool calls of ai messages, the answered call of tool messages
SameMessageList(a, b) ==
    /\ Len(a) = Len(b)
    /\ \A i \in 1..Len(a) :
          /\ b[i].type = a[i].type
          /\ b[i].content = a[i].content
          /\ (a[i].type = "ai" => b[i].tool_calls = a[i].tool_calls)
          /\ (a[i].type = "tool" => b[i].tool_call_id = a[i].tool_call_id)

\* C2: put followed by get returns the message list that was put, for lists
\* over system, human, ai and tool messages.
C2_RoundTripMessages ==
    (ret.op = "get" /\ ret.row # 0) =>
        SameMessageList(written[ret.row].channel_values.messages,
                        ret.value.channel_values.messages)

\* C7: the checkpoint table is append-only.  Every step keeps the rows it
\* found, in place; a put that commits adds exactly one row, of its thread;
\* a failed put, get and list change no row.
C7_AppendOnly ==
    [][ /\ Len(rows') >= Len(rows)
        /\ SubSeq(rows', 1, Len(rows)) = rows
        /\ \A config \in Configs, checkpoint \in StoreCheckpoints :
              StorePut(config, checkpoint, FALSE) =>
                 /\ Len(rows') = Len(rows) + 1
                 /\ rows'[Len(rows')].thread_id = ThreadId(config)
                 /\ rows'[Len(rows')].checkpoint_data = CheckpointData(checkpoint)
        /\ (\E config \in Configs, checkpoint \in StoreCheckpoints :
              StorePut(config, checkpoint, TRUE)) => rows' = rows
        /\ (\E config \in Configs, fault \in BOOLEAN :
              StoreGet(config, fault) \/ StoreList(config, fault)) => rows' = rows
      ]_vars

\* a put has committed onto a table that already held rows of the same thread
C7_Witness ==
    /\ ret.op = "put" /\ ~ret.raised
    /\ Len(rows) >= 2
    /\ rows[Len(rows)].thread_id = ThreadId(ret.config)
    /\ \E i \in 1..(Len(rows) - 1) : rows[i].thread_id = ThreadId(ret.config)

(***************************************************************************)
(* Properties of the agent loop.                                           *)
(***************************************************************************)
StoredMessages(record) == record.checkpoint_data.channel_values.messages

\* C3: when the reasoning provider fails, the run has written nothing: the
\* latest checkpoint of the thread is the one from before the run, and it
\* holds no message of the run, not even the human message.
C3_FailedReasoningWritesNothing ==
    [][\A r \in Runs :
          (pc[r] = "REASON" /\ pc'[r] = "FAILED" /\ error'[r] = "provider") =>
             /\ LatestCandidates(rows', thread[r]) = before[r]
             /\ \A i \in LatestCandidates(rows', thread[r]) :
                   \A k \in 1..Len(StoredMessages(rows'[i])) :
                      StoredMessages(rows'[i])[k].content # UserMessage[r]
      ]_vars

\* C4: the data_store an invocation returns holds exactly the payloads its
\* own tool calls deposited.
C4_DataStoreIsolated ==
    \A r \in Runs :
       response[r].returned =>
          \A t \in DataTypes :
             /\ DOMAIN response[r].data_store[t] = {k \in {d[2] : d \in own[r]} : <<t, k>> \in own[r]}
             /\ \A k \in DOMAIN response[r].data_store[t] :
                   response[r].data_store[t][k].by = r

\* C5: START -> REASON -> (TOOLS -> REASON)* -> END.  From START a run goes to
\* REASON (or fails); from REASON to TOOLS exactly when the last message
\* carries a tool call, to END otherwise (or fails); from TOOLS to REASON (or
\* fails); END is entered from REASON only; FAILED and END are left never.
C5_StateMachine ==
    [][\A r \in Runs :
          LET last == messages'[r][Len(messages'[r])]
          IN /\ pc[r] = "idle" => pc'[r] \in {"idle", "START"}
             /\ pc[r] = "START" => pc'[r] \in {"START", "REASON", "FAILED"}
             /\ pc[r] = "REASON" => pc'[r] \in {"REASON", "TOOLS", "END", "FAILED"}
             /\ (pc[r] = "REASON" /\ pc'[r] = "TOOLS") =>
                   (last.type = "ai" /\ last.tool_calls # <<>>)
             /\ (pc[r] = "REASON" /\ pc'[r] = "END") =>
                   (last.type = "ai" /\ last.tool_calls = <<>>)
             /\ pc[r] = "TOOLS" => pc'[r] \in {"TOOLS", "REASON", "FAILED"}
             /\ (pc'[r] = "END" /\ pc[r] # "END") => pc[r] = "REASON"
             /\ pc[r] = "FAILED" => pc'[r] = "FAILED"
             /\ pc[r] = "END" => pc'[r] = "END"
      ]_vars

\* a run went REASON, TOOLS, REASON and ended
C5_Witness ==
    \E r \in Runs :
       /\ pc[r] = "END"
       /\ \E k \in 1..Len(messages[r]) :
             /\ messages[r][k].type = "tool"
             /\ messages[r][k].content = "Current Date Information: ..."

\* C6: every run ends in END or FAILED; the number of supersteps never
\* exceeds the limit, a run stopped by the limit fails with
\* GraphRecursionError, and a failed run takes no further step.
C6_BoundedLoop ==
    /\ [](\A r \in Runs :
             /\ step[r] <= RecursionLimit
             /\ error[r] = "GraphRecursionError" =>
                   (pc[r] = "FAILED" /\ step[r] = RecursionLimit))
    /\ [][\A r \in Runs :
             /\ (pc[r] \in {"REASON", "TOOLS"} /\ step[r] >= RecursionLimit /\ pc'[r] # pc[r]) =>
                   (pc'[r] = "FAILED" /\ error'[r] = "GraphRecursionError")
             /\ pc[r] = "FAILED" =>
                   (pc'[r] = "FAILED" /\ error'[r] = error[r] /\ step'[r] = step[r]
                    /\ rows' = rows)
        ]_vars
    /\ \A r \in Runs : (pc[r] = "START") ~> (pc[r] \in {"END", "FAILED"})

\* the model answered with tool calls every time and the limit stopped the run
C6_Witness ==
    /\ pc["A"] = "FAILED"
    /\ error["A"] = "GraphRecursionError"
    /\ \A k \in 1..Len(messages["A"]) :
          messages["A"][k].type = "ai" => messages["A"][k].tool_calls # <<>>

IsPrefix(a, b) == Len(a) <= Len(b) /\ SubSeq(b, 1, Len(a)) = a

\* C8: each checkpoint written to a thread extends the message list of the
\* checkpoint that was the thread's latest just before the write.
C8_MonotonicHistory ==
    [][Len(rows') > Len(rows) =>
          LET new == rows'[Len(rows')]
          IN \A i \in LatestCandidates(rows, new.thread_id) :
                IsPrefix(StoredMessages(rows[i]), StoredMessages(new))
      ]_vars

\* every tool message answers a tool call of an earlier ai message
AnswersMatch(msgs) ==
    \A k \in 1..Len(msgs) :
       msgs[k].type = "tool" =>
          \E j \in 1..(k - 1) :
             /\ msgs[j].type = "ai"
             /\ \E c \in 1..Len(msgs[j].tool_calls) :
                   msgs[j].tool_calls[c].id = msgs[k].tool_call_id

\* C9: in every history a run holds, each tool message's tool_call_id is the
\* id of a tool call of an earlier ai message.
C9_ToolMessagesAnswerCalls ==
    \A r \in Runs : AnswersMatch(messages[r])

SearchTools == {"search_flights", "search_hotels", "search_news"}
FailedOutcomes == {"malformed", "network_error", "error_status"}
ErrorDescriptions ==
    {"Error searching flights: e", "Error searching hotels: e", "Error searching news: e"}
NoResultsMessages ==
    {"No flights found for the given route and dates.",
     "No hotels found for the given location and dates.",
     "No news articles found for the given query."}

\* the tool call i of run r completes in this step, its provider having failed
FailedCallCompletes(r, i) ==
    /\ pc[r] = "TOOLS"
    /\ i \in DOMAIN results[r] /\ i \in DOMAIN results'[r]
    /\ results[r][i] = Pending /\ results'[r][i] # Pending
    /\ messages[r][Len(messages[r])].tool_calls[i].name \in SearchTools
    /\ outcome'[r][i] \in FailedOutcomes

\* the turn of run r ends in this step with one tool message per call, in
\* call order, carrying the strings the calls returned
TurnCompletes(r) ==
    LET tool_calls == messages[r][Len(messages[r])].tool_calls
    IN /\ \A i \in 1..Len(tool_calls) : results[r][i] # Pending
       /\ messages'[r] = messages[r] \o
             [i \in 1..Len(tool_calls) |-> ToolMessage(results[r][i], tool_calls[i].id)]

WritesState(r) ==
    /\ Len(rows') = Len(rows) + 1
    /\ rows'[Len(rows')].thread_id = thread[r]
    /\ written'[Len(written')].channel_values.messages = messages'[r]

\* C11: a run whose put failed ends in failure and returns no response: a
\* step that changes the run's messages without its row being written takes
\* the run to FAILED; a run with a persistence error is FAILED and has
\* returned nothing; a response is returned only by a step whose write of
\* the terminal state is committed.
C11_PutFaultFailsRun ==
    /\ [](\A r \in Runs :
             error[r] = "persistence" => (pc[r] = "FAILED" /\ ~response[r].returned))
    /\ [][\A r \in Runs :
             /\ (messages'[r] # messages[r] /\ rows' = rows) =>
                   (pc'[r] = "FAILED" /\ error'[r] = "persistence"
                    /\ response'[r] = response[r])
             /\ (response'[r].returned /\ ~response[r].returned) => WritesState(r)
        ]_vars

\* the write of the terminal state failed: the last message is the final
\* answer, no row holds it, and the run has failed
C11_Witness ==
    \E r \in Runs :
       /\ pc[r] = "FAILED" /\ error[r] = "persistence"
       /\ Len(messages[r]) >= 2
       /\ messages[r][Len(messages[r])].type = "ai"
       /\ messages[r][Len(messages[r])].tool_calls = <<>>
       /\ \A i \in 1..Len(rows) : written[i].channel_values.messages # messages[r]

\* the payloads run r deposited, as a request data store
OwnDeposits(r) ==
    [t \in DataTypes |->
        [k \in {d[2] : d \in {o \in own[r] : o[1] = t}} |-> FullData(r, t, k).payload]]

\* C12: for invocations made one after another, chat starts with an empty
\* request data store and returns exactly the payloads its own tool calls
\* deposited; no checkpoint row holds anything but the messages channel.
C12_SequentialDataStore ==
    /\ [](\A r \in Runs : response[r].returned => response[r].data_store = OwnDeposits(r))
    /\ [](\A i \in 1..Len(rows) :
             /\ DOMAIN rows[i].checkpoint_data =
                   {"v", "ts", "id", "channel_values", "channel_versions", "versions_seen"}
             /\ DOMAIN rows[i].checkpoint_data.channel_values = {"messages"})
    /\ [][\A r \in Runs : (pc[r] = "idle" /\ pc'[r] = "START") => crd' = EmptyRequestData]_vars

\* the second invocation returned, with a deposit of its own, and a key the
\* first one had deposited is absent from what it returned
C12_Witness ==
    /\ response["B"].returned
    /\ own["B"] # {}
    /\ \E o \in own["A"] : o[2] \notin DOMAIN response["B"].data_store[o[1]]

\* C20: a list that returns checkpoints returns every checkpoint put for the
\* thread and none of another thread, in the reverse of the write order, so
\* that the first one is the checkpoint put last.
C20_ListNewestFirst ==
    (ret.op = "list" /\ ret.order # <<>>) =>
        /\ Range(ret.order) = ThreadRows(rows, ThreadId(ret.config))
        /\ Len(ret.order) = Cardinality(ThreadRows(rows, ThreadId(ret.config)))
        /\ \A i, j \in 1..Len(ret.order) : i < j => ret.order[i] > ret.order[j]
        /\ ret.value[1] = LoadCheckpoint(rows[LastWritten(rows, ThreadId(ret.config))])

\* C21: no two rows of one thread carry the same checkpoint id.
C21_CheckpointIdsUnique ==
    \A i, j \in 1..Len(rows) :
       (i # j /\ rows[i].thread_id = rows[j].thread_id) =>
          rows[i].checkpoint_id # rows[j].checkpoint_id

\* the messages get would hand back for row i of the table
LoadedMessages(table, i) == LoadCheckpoint(table[i]).channel_values.messages

CallCompletes(r, i) ==
    /\ pc[r] = "TOOLS"
    /\ i \in DOMAIN results[r] /\ i \in DOMAIN results'[r]
    /\ results[r][i] = Pending /\ results'[r][i] # Pending

\* the step deposits payload under store[data_type][key] and nothing else
DepositsOnly(r, data_type, key) ==
    /\ key \in DOMAIN crd'[data_type]
    /\ crd'[data_type][key] = [by |-> r, of |-> data_type]
    /\ \A t \in DataTypes : \A k \in DOMAIN crd'[t] :
          (t # data_type \/ k # key) => (k \in DOMAIN crd[t] /\ crd'[t][k] = crd[t][k])

RowsOf(r) == {i \in 1..Len(rows) : written[i].id \in Range(CheckpointIdOf[r])}

\* C19: within a run every transition writes the state it produced, in the
\* order of the transitions: the human input, each ai message with tool
\* calls, each batch of tool messages (one per tool call of the turn, in
\* the order of the calls), the terminal ai message; so each checkpoint of
\* the run extends the one the run wrote before.
C19_WritesInProgramOrder ==
    /\ [][\A r \in Runs :
             LET last == messages'[r][Len(messages'[r])]
             IN /\ (pc[r] = "START" /\ pc'[r] = "REASON") =>
                      (last = HumanMessage(UserMessage[r]) /\ WritesState(r))
                /\ (pc[r] = "REASON" /\ pc'[r] = "TOOLS") =>
                      /\ messages'[r] = Append(messages[r], last)
                      /\ last.type = "ai" /\ last.tool_calls # <<>>
                      /\ WritesState(r)
                /\ (pc[r] = "REASON" /\ pc'[r] = "END") =>
                      /\ messages'[r] = Append(messages[r], last)
                      /\ last.type = "ai" /\ last.tool_calls = <<>>
                      /\ WritesState(r)
                /\ (pc[r] = "TOOLS" /\ pc'[r] = "REASON") =>
                      (TurnCompletes(r) /\ WritesState(r))
                /\ pc'[r] = pc[r] => rows' = rows \/ \E q \in Runs : pc'[q] # pc[q]
        ]_vars
    /\ [](\A r \in Runs : \A i, j \in RowsOf(r) :
             i < j => IsPrefix(written[i].channel_values.messages,
                               written[j].channel_values.messages))

\* a run wrote four checkpoints: input, tool calls, two tool messages, answer
C19_Witness ==
    \E r \in Runs :
       /\ pc[r] = "END"
       /\ Cardinality(RowsOf(r)) = 4
       /\ \E k \in 1..(Len(messages[r]) - 1) :
             messages[r][k].type = "tool" /\ messages[r][k + 1].type = "tool"

(***************************************************************************)
(* Properties of the HTTP API.                                             *)
(***************************************************************************)
\* C14: a chat request with an empty message is rejected and mutates
\* nothing: the invocation never starts (no thread, no message, no step, no
\* tool call, no deposit, no response), and the step that rejects it leaves
\* the checkpoints, the conversations and the request data store as they
\* are.
C14_EmptyMessageRejected ==
    [][\A r \in Runs :
          request[r] = "" =>
             /\ pc'[r] \in {"idle", "REJECTED"}
             /\ thread'[r] = None /\ messages'[r] = <<>> /\ step'[r] = 0
             /\ ncalls'[r] = 0 /\ own'[r] = {} /\ ~response'[r].returned
             /\ (pc[r] = "idle" /\ pc'[r] = "REJECTED") =>
                   UNCHANGED <<rows, conversations, written, crd>>
      ]_vars

\* an empty message was rejected while the thread had checkpoints and the
\* request data store held the deposits of the invocation before
C14_Witness ==
    /\ request["B"] = "" /\ pc["B"] = "REJECTED"
    /\ rows # <<>>
    /\ crd # EmptyRequestData

\* the step is a call of GET /data/{data_type}/{key}
GetDataStep == ret'.op = "get_data" /\ UNCHANGED <<pc, results, messages, request, crd>>
\* the step is a call of DELETE /chat/clear-data
ClearDataStep == ret'.op = "clear_data" /\ UNCHANGED <<pc, results, messages, request>>

\* C16: get_data answers with the payload the request data store holds under
\* (data_type, key) and with not-found when it holds none; the store holds a
\* key only from a deposit made since it was last emptied, with the payload
\* of the latest such deposit; clear_data and the start of a chat empty it;
\* clear_data changes no checkpoint.
C16_GetData ==
    [][/\ GetDataStep =>
             /\ ret'.status = (IF ret'.key \in DOMAIN crd[ret'.data_type] THEN 200 ELSE 404)
             /\ ret'.status = 200 => ret'.data = crd[ret'.data_type][ret'.key]
       /\ \A t \in DataTypes : \A k \in DOMAIN crd'[t] :
             (k \notin DOMAIN crd[t] \/ crd'[t][k] # crd[t][k]) =>
                \E r \in Runs, i \in 1..2 :
                   /\ CallCompletes(r, i)
                   /\ <<t, k>> \in own'[r]
                   /\ crd'[t][k] = [by |-> r, of |-> t]
       /\ (ClearDataStep \/ \E r \in Runs : (pc[r] = "idle" /\ pc'[r] = "START")) =>
             crd' = EmptyRequestData
       /\ ClearDataStep => UNCHANGED <<rows, conversations, written>>
      ]_vars

\* get_data found the payload of the second invocation under a key the
\* first invocation had deposited too
C16_Witness ==
    /\ ret.op = "get_data" /\ ret.status = 200
    /\ ret.data.by = "B"
    /\ <<ret.data_type, ret.key>> \in own["A"]
    /\ rows # <<>>

\* the step is a call of GET /chat/history/{thread_id}
GetHistoryStep == ret'.op = "get_history" /\ UNCHANGED <<pc, results, messages>>

\* C17: get_history(T) returns one {role, content} entry per message of the
\* checkpoint written last for T, in order, with the role and the content
\* the message had when the run appended it; an empty list for a thread
\* without checkpoints; and it writes nothing.
C17_GetHistory ==
    [][GetHistoryStep =>
          /\ ret'.messages =
                IF ThreadRows(rows, ret'.thread_id) = {}
                THEN <<>>
                ELSE FormatMessages(
                        written[LastWritten(rows, ret'.thread_id)].channel_values.messages)
          /\ UNCHANGED <<rows, conversations, written, crd>>
      ]_vars

C22_AmenitiesSummary ==
    ret.op = "parse_hotel_json" =>
       \A i \in 1..Len(ret.data.properties) :
          LET amenities == ret.data.properties[i].amenities
              N == Len(amenities)
              summary == ret.toon.lines[i].amenities_summary
          IN /\ N = 0 => summary = <<"None">>
             /\ N = 1 => summary = <<amenities[1]>>
             /\ N = 2 => summary = <<amenities[1], ", ", amenities[2]>>
             /\ N = 3 => summary = <<amenities[1], ", ", amenities[2], ", ", amenities[3]>>
             /\ N > 3 => summary = <<amenities[1], ", ", amenities[2],
                                     ", +", ToString(N - 2), " more">>

\* a hotel with five amenities beside one with three
C22_Witness ==
    /\ ret.op = "parse_hotel_json"
    /\ Len(ret.data.properties) = 2
    /\ Len(ret.data.properties[1].amenities) = 5
    /\ ret.toon.lines[1].amenities_summary = <<"Pool", ", ", "Free Wi-Fi", ", +", "3", " more">>
    /\ Len(ret.data.properties[2].amenities) = 3

\* C23: the stop count of a flight option is its number of segments minus
\* one, in the option's record of the full payload and in each of its
\* compact lines.
C23_Stops ==
    (ret.op = "parse_flight_data_to_toon" /\ "header" \in DOMAIN ret.toon) =>
       /\ \A i \in 1..Len(ret.full_data.flights) :
             ret.full_data.flights[i].stops = Len(ret.full_data.flights[i].raw_data.flights) - 1
       /\ \A k \in 1..Len(ret.toon.lines) :
             ret.toon.lines[k].stops
                = Len(ret.full_data.flights[ret.toon.lines[k].idx].raw_data.flights) - 1

\* a direct option (0 stops) beside one of three segments (2 stops)
C23_Witness ==
    /\ ret.op = "parse_flight_data_to_toon"
    /\ "header" \in DOMAIN ret.toon
    /\ Len(ret.full_data.flights) = 2
    /\ ret.full_data.flights[1].stops = 0
    /\ ret.full_data.flights[2].stops = 2
    /\ Len(ret.toon.lines) = 4
    /\ ret.toon.lines[4].stops = 2

\* number of segments of the options before option idx
RECURSIVE SegmentsBefore(_, _)
SegmentsBefore(flights, idx) ==
    IF idx <= 1 THEN 0
    ELSE SegmentsBefore(flights, idx - 1) + Len(flights[idx - 1].segments)

\* C28: the flight compact view has one line per segment, in option order
\* then segment order; the lines of an option carry its idx, price,
\* duration and stops; the number of lines is the total number of segments.
C28_LinePerSegment ==
    (ret.op = "parse_flight_data_to_toon" /\ "header" \in DOMAIN ret.toon) =>
       LET flights == ret.full_data.flights
           lines == ret.toon.lines
       IN /\ Len(lines) = SegmentsBefore(flights, Len(flights) + 1)
          /\ \A i \in 1..Len(flights) : \A k \in 1..Len(flights[i].segments) :
                LET line == lines[SegmentsBefore(flights, i) + k]
                    seg == flights[i].segments[k]
                IN /\ line.idx = flights[i].idx
                   /\ line.price = flights[i].price
                   /\ line.duration = flights[i].duration
                   /\ line.stops = flights[i].stops
                   /\ line.dep = seg.departure_airport
                   /\ line.arr = seg.arrival_airport
                   /\ line.airline = seg.airline
                   /\ line.flight_num = seg.flight_number

\* two options of two and three segments give five lines
C28_Witness ==
    /\ ret.op = "parse_flight_data_to_toon"
    /\ "header" \in DOMAIN ret.toon
    /\ Len(ret.full_data.flights) = 2
    /\ Len(ret.full_data.flights[1].segments) = 2
    /\ Len(ret.full_data.flights[2].segments) = 3
    /\ Len(ret.toon.lines) = 5
    /\ ret.toon.lines[2].idx = 1
    /\ ret.toon.lines[3].idx = 2
    /\ ret.toon.lines[5].dep = "LHR"

\* the content of a search tool says that there are no records
StatesZeroRecords(content) ==
    IF "header" \in DOMAIN content THEN content.header.count = 0
    ELSE content.text \in {"No flights found.",
                           "No news articles found for the given query."}

\* C26: on a provider answer with zero records a search tool returns a
\* compact view that states zero records and deposits a full payload whose
\* record list is empty.
C26_EmptyResult ==
    /\ (ret.op = "search_flights" /\ Len(FlightsList(ret.data)) = 0) =>
          /\ StatesZeroRecords(ret.content)
          /\ Len(ret.deposits) = 1
          /\ ret.deposits[1].flights = <<>>
    /\ (ret.op = "search_hotels" /\ Len(ret.data.properties) = 0) =>
          /\ StatesZeroRecords(ret.content)
          /\ Len(ret.deposits) = 1
          /\ ret.deposits[1].properties = <<>>
    /\ (ret.op = "search_news" /\ Len(ret.data.organic_results) = 0) =>
          /\ StatesZeroRecords(ret.content)
          /\ Len(ret.deposits) = 1
          /\ ret.deposits[1].articles = <<>>

\* C27: for a raw result of N records the header states N, the full payload
\* holds N items, item i carries idx i as do its compact lines, and every
\* record of the raw result is in the full payload.
C27_AllRecords ==
    /\ ret.op = "parse_hotel_json" =>
          LET N == Len(ret.data.properties)
          IN /\ ret.toon.header.count = N
             /\ Len(ret.full_data.properties) = N
             /\ Len(ret.toon.lines) = N
             /\ \A i \in 1..N :
                   /\ ret.full_data.properties[i].idx = i
                   /\ ret.toon.lines[i].idx = i
                   /\ ret.full_data.properties[i].name = ret.data.properties[i].name
                   /\ ret.full_data.properties[i].amenities = ret.data.properties[i].amenities
    /\ ret.op = "parse_news_data" =>
          LET N == Len(ret.data.organic_results)
          IN /\ ret.toon.header.count = N
             /\ Len(ret.full_data.articles) = N
             /\ Len(ret.toon.lines) = N
             /\ \A i \in 1..N :
                   /\ ret.full_data.articles[i].idx = i
                   /\ ret.toon.lines[i].idx = i
                   /\ ret.full_data.articles[i].title = ret.data.organic_results[i].title
                   /\ ret.full_data.articles[i].position = ret.data.organic_results[i].position
    /\ ret.op = "parse_flight_data_to_toon" =>
          LET records == Range(ret.data.best_flights) \cup Range(ret.data.other_flights)
              flights == ret.full_data.flights
          IN /\ "header" \in DOMAIN ret.toon =>
                   /\ ret.toon.header.count = Len(flights)
                   /\ \A k \in 1..Len(ret.toon.lines) :
                         ret.toon.lines[k].idx \in 1..Len(flights)
             /\ \A i \in 1..Len(flights) : flights[i].idx = i
             /\ \A record \in records :
                   \E i \in 1..Len(flights) : flights[i].raw_data = record

(***************************************************************************)
(* Properties of get_current_date.                                         *)
(***************************************************************************)
\* C24 as stated: for month m and today (Y, M, D) the guide gives Y+1 when
\* m < M, Y when m > M, and for m = M the year Y for a day up to D and Y+1
\* for a later day.
C24_MonthYearGuide ==
    ret.op = "get_current_date" =>
       \A m \in 1..12 :
          LET guide == ret.month_year_guide[m]
              Y == ret.today.year
              M == ret.today.month
          IN /\ m < M => (guide.after = Y + 1 /\ guide.upto = Y + 1)
             /\ m > M => (guide.after = Y /\ guide.upto = Y)
             /\ m = M => (guide.day = ret.today.day /\ guide.upto = Y
                             /\ guide.after = Y + 1)

\* C24, amended: for m = M the guide gives Y for a day later than D and Y+1
\* for a day up to D; Y+1 when m < M and Y when m > M.
C24_MonthYearGuideAmended ==
    ret.op = "get_current_date" =>
       \A m \in 1..12 :
          LET guide == ret.month_year_guide[m]
              Y == ret.today.year
              M == ret.today.month
          IN /\ m < M => (guide.after = Y + 1 /\ guide.upto = Y + 1)
             /\ m > M => (guide.after = Y /\ guide.upto = Y)
             /\ m = M => (guide.day = ret.today.day /\ guide.after = Y
                             /\ guide.upto = Y + 1)

\* today is 2025-11-15: January maps to 2026, December to 2025
C24_Witness ==
    /\ ret.op = "get_current_date"
    /\ ret.today = [year |-> 2025, month |-> 11, day |-> 15]
    /\ ret.month_year_guide[1].after = 2026
    /\ ret.month_year_guide[1].upto = 2026
    /\ ret.month_year_guide[12].after = 2025
    /\ ret.month_year_guide[12].upto = 2025
    /\ ret.month_year_guide[11].after = 2025
    /\ ret.month_year_guide[11].upto = 2026

\* a is not later than b
DateLE(a, b) ==
    \/ a.year < b.year
    \/ a.year = b.year /\ a.month < b.month
    \/ a.year = b.year /\ a.month = b.month /\ a.day <= b.day

NextMonth18(today) ==
    IF today.month = 12
    THEN [year |-> today.year + 1, month |-> 1, day |-> 18]
    ELSE [year |-> today.year, month |-> today.month + 1, day |-> 18]

\* C25 as stated: the next 18th is the 18th of this month when that day has
\* not yet passed (today is the 18th or earlier), otherwise the 18th of the
\* next month, January of the next year after December; it is never earlier
\* than today.
C25_Eighteenth ==
    ret.op = "get_current_date" =>
       /\ ret.today.day <= 18 =>
             ret.eighteenth = [year |-> ret.today.year, month |-> ret.today.month, day |-> 18]
       /\ ret.today.day > 18 => ret.eighteenth = NextMonth18(ret.today)
       /\ DateLE(ret.today, ret.eighteenth)

\* C25, amended: the 18th of this month when today is before the 18th,
\* otherwise (the 18th itself included) the 18th of the next month, January
\* of the next year after December; the resolved date is later than today.
C25_EighteenthAmended ==
    ret.op = "get_current_date" =>
       /\ ret.today.day < 18 =>
             ret.eighteenth = [year |-> ret.today.year, month |-> ret.today.month, day |-> 18]
       /\ ret.today.day >= 18 => ret.eighteenth = NextMonth18(ret.today)
       /\ DateLE(ret.today, ret.eighteenth)
       /\ ret.eighteenth # ret.today

\* on the 18th of December the next 18th is in January of the next year
C25_Witness ==
    /\ ret.op = "get_current_date"
    /\ ret.today = [year |-> 2025, month |-> 12, day |-> 18]
    /\ ret.eighteenth = [year |-> 2026, month |-> 1, day |-> 18]

\* C30: list_keys(data_type) answers with exactly the keys deposited for
\* data_type and their number, and never with an error.
C30_ListKeys ==
    ret.op = "list_keys" =>
       /\ ret.status = 200
       /\ ret.keys = DOMAIN crd[ret.data_type]
       /\ ret.count = Cardinality(DOMAIN crd[ret.data_type])

\* C29: a failed external call of a run (reasoning invocation, search
\* request, checkpoint write) was attempted exactly once.
C29_NoRetries ==
    (ret.op \in {"ainvoke", "client_get", "put"} /\ ret.failed) => ret.attempts = 1

(***************************************************************************)
(* Properties of the reasoning input and of the load at the start of a run.*)
(***************************************************************************)
HasSystem(msgs) == \E k \in 1..Len(msgs) : msgs[k].type = "system"

\* the reasoning step that run r is about to take
AboutToReason(r) == pc[r] = "REASON" /\ ~OutOfSteps(step[r])

\* C31: the system message is in the reasoning input exactly at the first
\* reasoning step of a run on a thread that had no checkpoint, when the
\* history is the one human message; it is in no later input of that run
\* or of later runs on the thread, and in no persisted message list.
C31_SystemMessageOnlyFirst ==
    /\ \A r \in Runs :
          AboutToReason(r) =>
             (HasSystem(AgentInput(messages[r]))
                <=> (before[r] = {} /\ messages[r] = <<HumanMessage(UserMessage[r])>>))
    /\ \A r \in Runs : ~HasSystem(messages[r])
    /\ \A i \in 1..Len(rows) : ~HasSystem(StoredMessages(rows[i]))

\* C32: a run on a thread that has a checkpoint does not go on from the
\* empty message list: when it reaches its first reasoning step after the
\* load, its history extends a latest checkpoint of the thread.
C32_LoadFaultFailsRun ==
    [][\A r \in Runs :
          (pc[r] = "START" /\ pc'[r] = "REASON" /\ before[r] # {}) =>
             \E i \in before[r] :
                /\ IsPrefix(LoadedMessages(rows, i), messages'[r])
                /\ Len(messages'[r]) = Len(LoadedMessages(rows, i)) + 1
      ]_vars

(***************************************************************************)
(* Properties of put then get on the other fields of a checkpoint.         *)
(***************************************************************************)
\* a value made of the types JSON has: none, str, int, list, dict
RECURSIVE NativelySerializable(_)
NativelySerializable(value) ==
    /\ value.kind \in {"none", "str", "int", "list", "dict"}
    /\ \A k \in 1..Len(value.items) : NativelySerializable(value.items[k])

ShutdownDone == http.shutdown = Len(Services) + 1

ThreadOf(config) == IF config = Absent THEN "default" ELSE config

RowsUnder(table, thread_id) == {i \in 1..Len(table) : table[i].thread_id = thread_id}

\* C35: a put on thread T adds a row to T only and leaves the rows of every
\* other thread as they were; get and list on T return only rows that were
\* put under T, where a config without a thread id means "default".
C35_ThreadIsolation ==
    /\ []((ret.op = "get" /\ ret.row # 0) =>
             /\ rows[ret.row].thread_id = ThreadOf(ret.config)
             /\ ret.value = LoadCheckpoint(rows[ret.row]))
    /\ [](ret.op = "list" =>
             \A k \in 1..Len(ret.order) :
                /\ rows[ret.order[k]].thread_id = ThreadOf(ret.config)
                /\ ret.value[k] = LoadCheckpoint(rows[ret.order[k]]))
    /\ [][Len(rows') > Len(rows) =>
            /\ ret'.op = "put"
            /\ Len(rows') = Len(rows) + 1
            /\ rows'[Len(rows')].thread_id = ThreadOf(ret'.config)
            /\ \A T \in {"t1", "default"} \ {ThreadOf(ret'.config)} :
                  /\ RowsUnder(rows', T) = RowsUnder(rows, T)
                  /\ \A i \in RowsUnder(rows, T) : rows'[i] = rows[i]
      ]_vars

\* both threads hold rows and a get without a thread id returned a row of
\* "default"
C35_Witness ==
    /\ ret.op = "get"
    /\ ret.config = Absent
    /\ ret.row # 0
    /\ rows[ret.row].thread_id = "default"
    /\ RowsUnder(rows, "t1") # {}
    /\ Len(rows) = 3

(***************************************************************************)
(* Properties of put as a transaction.                                     *)
(***************************************************************************)
\* C36: a put that meets no database error succeeds, whatever another put
\* on the same thread id does at the same time: the creation of the thread
\* record does not make it fail.
C36_ConcurrentPutsSucceed ==
    \A p \in Runs : tx[p].pc = "failed" => tx[p].cause = "OperationalError"

\* C37: a put that fails leaves the tables as they were before the call:
\* the step in which it fails changes no table, and every thread record in
\* the table belongs to a put that committed its row.
C37_PutAtomic ==
    /\ [][\A p \in Runs :
            (tx'[p].pc = "failed" /\ tx[p] # tx'[p]) =>
               /\ rows' = rows
               /\ conversations' = conversations
               /\ written' = written
               /\ ret'.op = "put" /\ ret'.raised
      ]_vars
    /\ [](\A t \in conversations : RowsUnder(rows, t) # {})
    /\ []((ret.op = "get" /\ ret.row # 0) => ret.row \in 1..Len(written))

\* a put failed after it had flushed a new thread record and its row; the
\* thread has no record, and a get finds nothing
C37_Witness ==
    /\ tx["A"].pc = "failed"
    /\ tx["A"].conv
    /\ tx["A"].cause = "OperationalError"
    /\ ThreadId(tx["A"].config) \notin conversations
    /\ ret.op = "get" /\ ret.row = 0 /\ ret.config = tx["A"].config

C38_StopsNotNegative ==
    (ret.op = "parse_flight_data_to_toon" /\ "header" \in DOMAIN ret.toon) =>
       \A i \in 1..Len(ret.full_data.flights) :
          /\ ret.full_data.flights[i].stops >= 0
          /\ \E k \in 1..Len(ret.toon.lines) :
                ret.toon.lines[k].idx = ret.full_data.flights[i].idx

=============================================================================
